---- MODULE Spec2Model ----
(***************************************************************************)
(* Verification model of the tender-document parameter extraction          *)
(* pipeline (benzione/extract_pdf): page tagging, parameter-to-page        *)
(* matching, prompt building, retry-wrapped extraction and result          *)
(* formatting.                                                             *)
(*                                                                         *)
(* Text is modelled as a sequence of one-character strings, so that        *)
(* stripping, splitting, lower-casing and substring search are computed    *)
(* and not assumed.  Confidences are exact rationals <<num, den>> with     *)
(* den > 0 (the code uses binary floats; the thresholds compared here are  *)
(* decimal, see _convert_confidence_to_score).                             *)
(***************************************************************************)
EXTENDS Integers, Sequences, FiniteSets, TLC

VARIABLES
    pc,             \* control position of the operation under way
    retry_attempts, \* ConfigManager.get_retry_attempts()
    prompts,        \* list of prompt dicts handed to extract_batch_parameters
    responses,      \* list of LLMResponse built so far
    attempt,        \* loop variable of _make_api_call_with_retry
    apilog,         \* per prompt index: the generate_content / sleep events
    config,         \* config/app_config.json and the files it names, as found
    parameters,     \* the parameter names loaded from the parameters file
    pages,          \* the DocumentPage list (with the tagger's metadata)
    kwcfg,          \* the keyword tables of the tagger and the matcher
    matches,        \* list of ParameterMatch
    results,        \* the formatted results dict
    files,          \* the output files written
    validated,      \* whether validate_output has returned True
    arg,            \* input of the function under check
    ret             \* its result

vars == <<pc, retry_attempts, prompts, responses, attempt, apilog,
          config, parameters, pages, kwcfg, matches, results, files,
          validated, arg, ret>>

docVars == <<config, parameters, pages, kwcfg, matches>>
outVars == <<results, files, validated>>
fnVars == <<arg, ret>>

(***************************************************************************)
(* Bounds                                                                  *)
(***************************************************************************)
MaxParams == 2      \* longest parameter / prompt list
MaxRetry == 3       \* largest configured retry_attempts
MaxLen == 3         \* longest free-form answer string in SpecResponse
ScoreGrid == 100    \* confidences k/ScoreGrid, k in 0..ScoreGrid

\* Values that are not text are one-element sequences whose element is no
\* character, so that they compare with text without a type clash.
Null == <<"<None>">>        \* Python None / JSON null
Missing == <<"<missing>">>  \* key absent from a dict, group not captured
JNumber == <<"<number>">>   \* a truthy JSON value that is not a string

(***************************************************************************)
(* Strings                                                                 *)
(***************************************************************************)
Whitespace == {" ", "\n", "\t"}
Digits == {"0", "1", "2", "3", "4", "5", "6", "7", "8", "9"}
Uppers == {"A", "B", "D", "F", "N", "O", "T", "U", "X"}

\* str.lower() on one character
LowerChar(c) ==
    CASE c = "A" -> "a" [] c = "B" -> "b" [] c = "D" -> "d" [] c = "F" -> "f"
      [] c = "N" -> "n" [] c = "O" -> "o" [] c = "T" -> "t" [] c = "U" -> "u"
      [] c = "X" -> "x" [] OTHER -> c

\* str.lower()
Lower(s) == [i \in 1..Len(s) |-> LowerChar(s[i])]

\* str.strip()
RECURSIVE LStrip(_)
LStrip(s) == IF s # <<>> /\ Head(s) \in Whitespace THEN LStrip(Tail(s)) ELSE s

RECURSIVE RStrip(_)
RStrip(s) ==
    IF s # <<>> /\ s[Len(s)] \in Whitespace
    THEN RStrip(SubSeq(s, 1, Len(s) - 1)) ELSE s

Strip(s) == RStrip(LStrip(s))

\* str.split(): the maximal runs of non-whitespace characters
RECURSIVE SplitFrom(_, _, _)
SplitFrom(s, i, cur) ==
    IF i > Len(s) THEN (IF cur = <<>> THEN <<>> ELSE <<cur>>)
    ELSE IF s[i] \in Whitespace
         THEN (IF cur = <<>> THEN <<>> ELSE <<cur>>) \o SplitFrom(s, i + 1, <<>>)
         ELSE SplitFrom(s, i + 1, Append(cur, s[i]))

Split(s) == SplitFrom(s, 1, <<>>)

\* ' '.join(words)
RECURSIVE JoinSpace(_)
JoinSpace(ws) ==
    IF ws = <<>> THEN <<>>
    ELSE IF Len(ws) = 1 THEN ws[1]
    ELSE ws[1] \o <<" ">> \o JoinSpace(Tail(ws))

\* sub in s
Contains(sub, s) ==
    \E i \in 0..(Len(s) - Len(sub)) : SubSeq(s, i + 1, i + Len(sub)) = sub

StartsWith(s, c) == s # <<>> /\ s[1] = c
EndsWith(s, c) == s # <<>> /\ s[Len(s)] = c

NOT_FOUND == <<"N", "O", "T", "_", "F", "O", "U", "N", "D">>

(***************************************************************************)
(* Rationals                                                               *)
(***************************************************************************)
RECURSIVE GCD(_, _)
GCD(a, b) == IF b = 0 THEN a ELSE GCD(b, a % b)

\* n/d in lowest terms (n >= 0, d > 0)
Rat(n, d) == LET g == GCD(n, d) IN <<n \div g, d \div g>>
Zero == <<0, 1>>
RatGE(r, n, d) == r[1] * d >= n * r[2]
RatLE(r, q) == r[1] * q[2] <= q[1] * r[2]
RatAdd(r, q) == Rat(r[1] * q[2] + q[1] * r[2], r[2] * q[2])
RatDivInt(r, k) == Rat(r[1], r[2] * k)
RatMin(r, q) == IF RatLE(r, q) THEN r ELSE q

RECURSIVE RatSum(_)
RatSum(rs) == IF rs = <<>> THEN Zero ELSE RatAdd(Head(rs), RatSum(Tail(rs)))

RECURSIVE SumSeq(_)
SumSeq(q) == IF q = <<>> THEN 0 ELSE Head(q) + SumSeq(Tail(q))

\* the texts used below, spelled out as character sequences
Txt ==
    [Acme |-> <<"A", "c", "m", "e", " ", "7">>,
     maybe |-> <<"m", "a", "y", "b", "e">>,
     na |-> <<"n", "/", "a">>,
     info |-> <<"i", "n", "f", "o">>,
     TASK |-> <<"T", "A", "S", "K">>,
     contents |-> <<"c", "o", "n", "t", "e", "n", "t", "s">>,
     tender |-> <<"t", "e", "n", "d", "e", "r">>,
     index |-> <<"i", "n", "d", "e", "x">>,
     law |-> <<"l", "a", "w">>,
     client |-> <<"c", "l", "i", "e", "n", "t">>,
     minimum |-> <<"m", "i", "n", "i", "m", "u", "m">>,
     cost |-> <<"c", "o", "s", "t">>,
     author |-> <<"a", "u", "t", "h", "o", "r">>,
     PAGE |-> <<"-", "-", "-", " ", "P", "A", "G", "E", " ">>]

(***************************************************************************)
(* llm_interface.py                                                        *)
(***************************************************************************)
not_found_indicators ==
    { <<"n", "o", "t", " ", "f", "o", "u", "n", "d">>,
      <<"n", "o", "t", " ", "a", "v", "a", "i", "l", "a", "b", "l", "e">>,
      <<"n", "o", "t", " ", "s", "p", "e", "c", "i", "f", "i", "e", "d">>,
      <<"n", "o", "t", " ", "m", "e", "n", "t", "i", "o", "n", "e", "d">>,
      <<"c", "a", "n", "n", "o", "t", " ", "b", "e", " ", "f", "o", "u", "n", "d">>,
      <<"n", "o", "t", " ", "p", "r", "o", "v", "i", "d", "e", "d">>,
      <<"n", "o", "t", " ", "i", "n", "d", "i", "c", "a", "t", "e", "d">>,
      <<"n", "/", "a">>,
      <<"n", "a">> }

uncertainty_indicators ==
    { <<"m", "a", "y", "b", "e">>,
      <<"p", "e", "r", "h", "a", "p", "s">>,
      <<"p", "o", "s", "s", "i", "b", "l", "y">>,
      <<"u", "n", "c", "l", "e", "a", "r">>,
      <<"a", "m", "b", "i", "g", "u", "o", "u", "s">> }

\* LLMResponse.__init__
LLMResponse(parameter, extracted_value, details, confidence, page_numbers) ==
    [parameter |-> parameter, extracted_value |-> extracted_value,
     details |-> details, confidence |-> confidence,
     page_numbers |-> page_numbers,
     is_found |-> extracted_value # NOT_FOUND]

\* _clean_extracted_value raises AttributeError on a truthy non-string
CleanRaises(value) == value = JNumber

\* _clean_extracted_value
_clean_extracted_value(value) ==
    IF value = Null \/ value = <<>> THEN <<>>
    ELSE LET unq == IF \/ (StartsWith(value, "\"") /\ EndsWith(value, "\""))
                       \/ (StartsWith(value, "'") /\ EndsWith(value, "'"))
                    THEN SubSeq(value, 2, Len(value) - 1)
                    ELSE value
             value_lower == Strip(Lower(unq))
         IN IF \E indicator \in not_found_indicators :
                    Contains(indicator, value_lower)
            THEN NOT_FOUND
            ELSE Strip(JoinSpace(Split(unq)))

\* _parse_text_response; the response carries what the answer patterns and
\* the details patterns capture (Missing when no pattern matches)
_parse_text_response(r) ==
    LET answer == IF r.answer = Missing THEN NOT_FOUND ELSE Strip(r.answer)
        details == IF r.details = Missing THEN <<>> ELSE Strip(r.details)
    IN <<_clean_extracted_value(answer), _clean_extracted_value(details)>>

\* _process_response: <<answer, details>>
_process_response(r) ==
    CASE r.kind = "nil" -> <<NOT_FOUND, <<>>>>      \* None.text raises
      [] r.kind = "blank" -> <<NOT_FOUND, <<>>>>
      [] r.kind = "json" ->
            LET answer == IF r.answer = Missing THEN NOT_FOUND ELSE r.answer
                details == IF r.details = Missing THEN <<>> ELSE r.details
            IN IF CleanRaises(answer) \/ CleanRaises(details)
               THEN <<NOT_FOUND, <<>>>>
               ELSE <<_clean_extracted_value(answer),
                      _clean_extracted_value(details)>>
      [] OTHER -> _parse_text_response(r)

\* variant that adds the factors up without dividing by their number
FloatMean_sum(tenths) == Rat(SumSeq(tenths), 10)

\* _calculate_confidence, line 349: sum(confidence_factors) /
\* len(confidence_factors) in double arithmetic, on factors given in tenths.
\* The double result differs from the exact mean by a few 2^-53; the model
\* moves the exact mean by one millionth in that direction where the exact
\* mean is a one-digit decimal d and the double result is not the double of
\* d (only there can the rounding decide a comparison with a one-digit
\* decimal): 0.8 + 0.8 + 0.8 is 2.4000000000000004 and a third of it
\* 0.8000000000000002, while (0.8 + 0.6 + 0.7 + 0.3) / 4 is
\* 0.5999999999999999.
FloatMean(tenths) ==
    LET exact == Rat(SumSeq(tenths), 10 * Len(tenths))
        above == {<<8, 8, 8>>, <<8, 4, 3>>, <<6, 4, 6, 8>>, <<2, 8, 6, 8>>,
                  <<2, 4, 3>>}
        below == {<<8, 6, 7, 3>>, <<8, 6, 7, 6, 3>>, <<6, 8, 7, 3>>,
                  <<6, 8, 7, 6, 3>>}
        towards == IF tenths \in above THEN 1
                   ELSE IF tenths \in below THEN 0 - 1 ELSE 0
    IN Rat(exact[1] * 1000000 + towards * exact[2], exact[2] * 1000000)

\* _calculate_confidence, with the factors in tenths
_calculate_confidence(extracted_value, details) ==
    IF extracted_value = NOT_FOUND THEN Zero
    ELSE LET answer_words == Len(Split(extracted_value))
             details_words == Len(Split(details))
             f1 == IF 2 <= answer_words /\ answer_words <= 50 THEN <<8>>
                   ELSE IF answer_words > 0 THEN <<6>>
                   ELSE <<2>>
             f2 == IF details_words > 5 THEN <<8>>
                   ELSE IF details_words > 0 THEN <<6>>
                   ELSE <<4>>
             f3 == IF \E i \in 1..Len(extracted_value) :
                          extracted_value[i] \in Digits
                   THEN <<7>> ELSE <<>>
             f4 == IF \E i \in 1..Len(extracted_value) :
                          extracted_value[i] \in Uppers
                   THEN <<6>> ELSE <<>>
             combined_text == Lower(extracted_value \o <<" ">> \o details)
             f5 == IF ~ \E indicator \in uncertainty_indicators :
                          Contains(indicator, combined_text)
                   THEN <<8>> ELSE <<3>>
         IN RatMin(FloatMean(f1 \o f2 \o f3 \o f4 \o f5), <<1, 1>>)

\* variant of the except branch that lets the exception out
extract_parameter_reraise(prompt_data) ==
    [raised |-> TRUE,
     response |-> LLMResponse(prompt_data.parameter, NOT_FOUND, <<>>, Zero,
                              prompt_data.page_numbers)]

\* extract_parameter, the except branch (lines 140-152): the exception is
\* logged and an error response is returned, nothing propagates
extract_parameter_except(prompt_data) ==
    [raised |-> FALSE,
     response |-> LLMResponse(prompt_data.parameter, NOT_FOUND, <<>>, Zero,
                              prompt_data.page_numbers)]

\* variant that caps the confidence by the one stored in the prompt dict
ProcessedResponse_capped(prompt_data, r) ==
    LET res == _process_response(r)
    IN LLMResponse(prompt_data.parameter, res[1], res[2],
                   RatMin(_calculate_confidence(res[1], res[2]),
                          prompt_data.confidence),
                   prompt_data.page_numbers)

\* extract_parameter, lines 112-138: the response built from an API result
ProcessedResponse(prompt_data, r) ==
    LET res == _process_response(r)
    IN LLMResponse(prompt_data.parameter, res[1], res[2],
                   _calculate_confidence(res[1], res[2]),
                   prompt_data.page_numbers)

\* variant of the prompt check without the strip
IsEmptyPrompt_nostrip(prompt) == prompt = <<>>

\* the prompt check of extract_parameter: not prompt or not prompt.strip()
IsEmptyPrompt(prompt) == prompt = <<>> \/ Strip(prompt) = <<>>

\* one event of apilog
CallEvent(k, ok) == [ev |-> "call", k |-> k, ok |-> ok, secs |-> 0]
SleepEvent(k, secs) == [ev |-> "sleep", k |-> k, ok |-> FALSE, secs |-> secs]

\* the prompt the loop of extract_batch_parameters is at
cur == Len(responses) + 1

Logged(e) == apilog' = [apilog EXCEPT ![cur] = Append(@, e)]

\* variant that puts an error response in front of the earlier responses
Returned_first(h) ==
    IF h.raised
    THEN /\ pc' = "raised"
         /\ UNCHANGED responses
    ELSE /\ pc' = "batch"
         /\ responses' = <<h.response>> \o responses

\* extract_batch_parameters, lines 386-396: the response of extract_parameter
\* is appended; an exception leaving extract_parameter aborts the batch
Returned(h) ==
    IF h.raised
    THEN /\ pc' = "raised"
         /\ UNCHANGED responses
    ELSE /\ pc' = "batch"
         /\ responses' = Append(responses, h.response)

\* extract_batch_parameters: one iteration up to the first external call
BatchStep ==
    /\ pc = "batch"
    /\ cur <= Len(prompts)
    /\ LET prompt_data == prompts[cur]
       IN IF prompt_data.prompt = Null
          THEN /\ responses' = Append(responses,
                       LLMResponse(prompt_data.parameter, NOT_FOUND, <<>>,
                                   Zero, <<>>))
               /\ UNCHANGED <<pc, attempt>>
          ELSE IF IsEmptyPrompt(prompt_data.prompt)
          THEN \* raise LLMAPIError inside the try of extract_parameter
               /\ Returned(extract_parameter_except(prompt_data))
               /\ UNCHANGED attempt
          ELSE IF retry_attempts <= 0
          THEN \* range(retry_attempts) is empty: the call returns None
               /\ responses' = Append(responses,
                       ProcessedResponse(prompt_data, [kind |-> "nil"]))
               /\ UNCHANGED <<pc, attempt>>
          ELSE /\ pc' = "call"
               /\ attempt' = 0
               /\ UNCHANGED responses
    /\ UNCHANGED <<retry_attempts, prompts, apilog, docVars, outVars, fnVars>>

\* what self.model.generate_content can do
ApiFailures == {[kind |-> "raise"], [kind |-> "empty"]}


ApiTexts ==
    { [kind |-> "json", answer |-> Txt.Acme, details |-> Txt.info],
      [kind |-> "json", answer |-> Txt.maybe, details |-> Missing],
      [kind |-> "json", answer |-> Txt.na, details |-> Txt.info],
      [kind |-> "json", answer |-> Missing, details |-> Txt.info],
      [kind |-> "json", answer |-> <<>>, details |-> <<>>],
      [kind |-> "json", answer |-> JNumber, details |-> <<>>],
      [kind |-> "text", answer |-> Txt.info, details |-> Missing],
      [kind |-> "blank"] }

IsFailure(r) == r.kind \in {"raise", "empty"}

\* _make_api_call_with_retry: one generate_content call and what follows it
\* up to the next external call or sleep
GenerateContent(r) ==
    /\ pc = "call"
    /\ Logged(CallEvent(attempt, ~ IsFailure(r)))
    /\ IF ~ IsFailure(r)
       THEN /\ responses' = Append(responses,
                                   ProcessedResponse(prompts[cur], r))
            /\ pc' = "batch"
       ELSE IF attempt < retry_attempts - 1
       THEN /\ pc' = "sleep"
            /\ UNCHANGED responses
       ELSE \* raise LLMAPIError("All ... attempts failed")
            Returned(extract_parameter_except(prompts[cur]))
    /\ UNCHANGED <<retry_attempts, prompts, attempt, docVars, outVars, fnVars>>

\* variant with a linear backoff
wait_time_linear(k) == 2 * k

\* wait_time = (2 ** attempt) * 1.0; time.sleep(wait_time)
wait_time(k) == 2 ^ k

Sleep ==
    /\ pc = "sleep"
    /\ Logged(SleepEvent(attempt, wait_time(attempt)))
    /\ attempt' = attempt + 1
    /\ pc' = "call"
    /\ UNCHANGED <<retry_attempts, prompts, responses, docVars, outVars, fnVars>>

\* extract_batch_parameters: return responses
BatchReturn ==
    /\ pc = "batch"
    /\ cur > Len(prompts)
    /\ pc' = "returned"
    /\ UNCHANGED <<retry_attempts, prompts, responses, attempt, apilog,
                   docVars, outVars, fnVars>>

ApiSucceeds == \E r \in ApiTexts : GenerateContent(r)
ApiFails == \E r \in ApiFailures : GenerateContent(r)

\* parts of the state an operation under check does not use
NoDocument ==
    /\ config = Null
    /\ parameters = <<>>
    /\ pages = <<>>
    /\ kwcfg = Null
    /\ matches = <<>>
NoOutput == results = <<>> /\ files = {} /\ validated = FALSE
NoFunction == arg = Null /\ ret = Null
NoExtraction ==
    /\ retry_attempts = 0
    /\ prompts = <<>>
    /\ responses = <<>>
    /\ attempt = 0
    /\ apilog = <<>>

(***************************************************************************)
(* SpecExtract: extract_batch_parameters on any list of prompt dicts       *)
(***************************************************************************)
ParamNames == {"client_name", "idea_author"}
PromptTexts == {Null, <<>>, <<" ">>, <<"\n", " ">>, Txt.TASK, <<" ", "T">>}

PromptDicts ==
    [parameter : ParamNames, prompt : PromptTexts, page_count : {1},
     confidence : {Rat(1, 2)}, page_numbers : {<<1>>}]

SeqsUpTo(S, n) == UNION {[1..k -> S] : k \in 0..n}

InitExtract ==
    /\ pc = "batch"
    /\ retry_attempts \in 0..MaxRetry
    /\ prompts \in SeqsUpTo(PromptDicts, MaxParams) \ {<<>>}
    /\ responses = <<>>
    /\ attempt = 0
    /\ apilog = [i \in 1..Len(prompts) |-> <<>>]
    /\ NoDocument
    /\ NoOutput
    /\ NoFunction

SpecExtract == InitExtract /\ [][BatchStep \/ ApiSucceeds \/ ApiFails \/ Sleep \/ BatchReturn]_vars

(***************************************************************************)
(* config_manager.py                                                       *)
(***************************************************************************)
required_keys ==
    {"pdf_input_path", "parameters_json_path", "output_directory",
     "log_file_path", "llm_model_name"}

\* variant that does not look at the files the paths name
_validate_configuration_keys_only(cfg) ==
    IF ~ (required_keys \subseteq cfg.keys)
    THEN "InvalidConfigurationError"
    ELSE "ok"

\* _validate_configuration: what it raises, or "ok"
_validate_configuration(cfg) ==
    IF ~ (required_keys \subseteq cfg.keys)
    THEN "InvalidConfigurationError"
    ELSE IF \E path_key \in {"pdf_input_path", "parameters_json_path"} :
               path_key \notin cfg.existing
    THEN "InvalidConfigurationError"
    ELSE "ok"

\* _load_configuration: what it raises, or "ok"; every exception of the
\* try block leaves as InvalidConfigurationError
_load_configuration(cfg) ==
    IF cfg.file = "missing" THEN "InvalidConfigurationError"
    ELSE IF cfg.file = "bad_json" THEN "InvalidConfigurationError"
    ELSE _validate_configuration(cfg)

(***************************************************************************)
(* document_parser.py: DocumentPage                                        *)
(***************************************************************************)
\* re's \w, by the characters it does not match
IsWordChar(c) == c \notin Whitespace \cup {"\"", "'", "/", ".", ",", ":", "-"}

\* str.count(sub) is CountFrom(sub, s, 1): the non-overlapping occurrences,
\* scanned left to right
RECURSIVE CountFrom(_, _, _)
CountFrom(sub, s, i) ==
    IF i + Len(sub) - 1 > Len(s) THEN 0
    ELSE IF SubSeq(s, i, i + Len(sub) - 1) = sub
         THEN 1 + CountFrom(sub, s, i + Len(sub))
         ELSE CountFrom(sub, s, i + 1)

\* \b between s[i] and s[i+1] (the ends of s count as non-word)
Boundary(s, i) ==
    LET before == i >= 1 /\ IsWordChar(s[i])
        after == i + 1 <= Len(s) /\ IsWordChar(s[i + 1])
    IN before # after

\* len(re.findall(r'\b' + re.escape(sub) + r'\b', s)) is
\* WordMatchesFrom(sub, s, 1)
RECURSIVE WordMatchesFrom(_, _, _)
WordMatchesFrom(sub, s, i) ==
    IF i + Len(sub) - 1 > Len(s) THEN 0
    ELSE IF /\ SubSeq(s, i, i + Len(sub) - 1) = sub
            /\ Boundary(s, i - 1)
            /\ Boundary(s, i + Len(sub) - 1)
         THEN 1 + WordMatchesFrom(sub, s, i + Len(sub))
         ELSE WordMatchesFrom(sub, s, i + 1)

\* DocumentPage._clean_content: whitespace runs collapse and the ends are
\* stripped (the page texts used here hold none of the header patterns or
\* artifact characters the other substitutions remove)
_clean_content(content) == Strip(JoinSpace(Split(content)))

\* DocumentPage.__init__.  The text of a page is cleaned_content followed by
\* `filler` further words that contain no keyword.
DocumentPage(page_number, content, filler) ==
    [page_number |-> page_number,
     cleaned_content |-> _clean_content(content),
     filler |-> filler,
     word_count |-> Len(Split(_clean_content(content))) + filler,
     page_type |-> "",
     relevant_parameters |-> <<>>,
     parameter_confidence |-> <<>>]

(***************************************************************************)
(* page_tagger.py                                                          *)
(***************************************************************************)
\* class PageType, in enumeration order
PageType ==
    <<"cover_page", "table_of_contents", "general_info", "technical_specs",
      "financial_info", "legal_terms", "evaluation_criteria",
      "submission_requirements", "contact_info", "appendix", "other">>


\* dict.get(key, default) on a dict kept as its list of items
DictHas(d, key) == \E i \in 1..Len(d) : d[i].key = key
DictGet(d, key, default) ==
    IF DictHas(d, key)
    THEN d[CHOOSE i \in 1..Len(d) : d[i].key = key].value
    ELSE default

\* PageTagger.__init__ on config/keywords_config.json as found: absent
\* (Missing), holding JSON that is no object (Null), or holding the tables.
\* When _load_keywords_from_config fails before or on its first use of
\* self.keywords_config, _initialize_fallback_keywords fails on it as well
\* and reaches line 139, which reads the undefined name keywords_config.
PageTagger_init(keywords_file) ==
    IF keywords_file \in {Missing, Null} THEN "NameError" ELSE "ok"

\* _classify_page_type, lines 202-208: the score of one page type
TypeScore(keywords, content_lower) ==
    LET One(keyword) ==
          IF Contains(keyword, content_lower)
          THEN 1 + (IF WordMatchesFrom(keyword, content_lower, 1) > 0 THEN 1 ELSE 0)
          ELSE 0
    IN SumSeq([k \in 1..Len(keywords) |-> One(keywords[k])])

\* variant that lets the last of several best types win
_classify_page_type_last(page_type_keywords, content_lower) ==
    LET n == Len(page_type_keywords)
        sc(i) == TypeScore(page_type_keywords[i].value, content_lower)
        best == CHOOSE i \in 1..n :
                   /\ \A j \in 1..n : sc(j) <= sc(i)
                   /\ \A j \in (i + 1)..n : sc(j) < sc(i)
    IN IF sc(best) > 0 THEN page_type_keywords[best].key ELSE "other"

\* _classify_page_type: max() returns the first item with the highest score
\* in the order of the keyword table
_classify_page_type(page_type_keywords, content_lower) ==
    LET n == Len(page_type_keywords)
        sc(i) == TypeScore(page_type_keywords[i].value, content_lower)
        best == CHOOSE i \in 1..n :
                   /\ \A j \in 1..n : sc(j) <= sc(i)
                   /\ \A j \in 1..(i - 1) : sc(j) < sc(i)
    IN IF sc(best) > 0 THEN page_type_keywords[best].key ELSE "other"

\* _find_relevant_parameters, lines 223-228: the score of one parameter
RelevanceScore(keywords, content_lower) ==
    LET One(keyword) ==
          (IF Contains(keyword, content_lower) THEN 1 ELSE 0)
          + (IF WordMatchesFrom(keyword, content_lower, 1) > 0 THEN 1 ELSE 0)
    IN SumSeq([k \in 1..Len(keywords) |-> One(keywords[k])])

\* _find_relevant_parameters
RECURSIVE _find_relevant_parameters(_, _)
_find_relevant_parameters(parameter_keywords, content_lower) ==
    IF parameter_keywords = <<>> THEN <<>>
    ELSE (IF RelevanceScore(Head(parameter_keywords).value, content_lower) >= 2
          THEN <<Head(parameter_keywords).key>> ELSE <<>>)
         \o _find_relevant_parameters(Tail(parameter_keywords), content_lower)

\* _calculate_confidence_scores, lines 250-255: scores['parameter_confidence']
ParameterConfidence(parameter_keywords, content_lower, relevant_parameters) ==
    [i \in 1..Len(relevant_parameters) |->
       LET keywords == DictGet(parameter_keywords, relevant_parameters[i], <<>>)
           Matched(kw) == IF Contains(kw, content_lower) THEN 1 ELSE 0
       IN [key |-> relevant_parameters[i],
           value |-> IF Len(keywords) > 0
                     THEN Rat(SumSeq([k \in 1..Len(keywords) |->
                                        Matched(keywords[k])]),
                              Len(keywords))
                     ELSE Zero]]

\* _tag_single_page
_tag_single_page(cfg, page) ==
    LET content_lower == Lower(page.cleaned_content)
        relevant == _find_relevant_parameters(cfg.parameter_keywords,
                                              content_lower)
    IN [page EXCEPT
          !.page_type = _classify_page_type(cfg.page_type_keywords,
                                            content_lower),
          !.relevant_parameters = relevant,
          !.parameter_confidence =
              ParameterConfidence(cfg.parameter_keywords, content_lower,
                                  relevant)]

\* _post_process_tags: 'contents' on one of the first five pages
_post_process_tags(ps) ==
    [i \in 1..Len(ps) |->
       IF i <= 5 /\ Contains(Txt.contents, Lower(ps[i].cleaned_content))
       THEN [ps[i] EXCEPT !.page_type = "table_of_contents"]
       ELSE ps[i]]

\* tag_pages
tag_pages(cfg, ps) ==
    _post_process_tags([i \in 1..Len(ps) |-> _tag_single_page(cfg, ps[i])])

\* PageTagger.tag_pages as one step; `next` is where the caller goes on.
\* max() of an empty keyword table raises, which tag_pages turns into
\* PageTaggingError.
TagPages(next) ==
    /\ pc = "tag"
    /\ IF pages # <<>> /\ kwcfg.page_type_keywords = <<>>
       THEN /\ pc' = "failed"
            /\ UNCHANGED pages
       ELSE /\ pc' = next
            /\ pages' = tag_pages(kwcfg, pages)
    /\ UNCHANGED <<retry_attempts, prompts, responses, attempt, apilog,
                   config, parameters, kwcfg, matches, outVars, fnVars>>

(***************************************************************************)
(* parameter_matcher.py                                                    *)
(***************************************************************************)
\* the letters of the string at line 364, by name
HebrewChars ==
    {"alef", "bet", "gimel", "dalet", "he", "vav", "zayin", "het", "tet",
     "yod", "kaf", "lamed", "mem", "nun", "samekh", "ayin", "pe", "tsadi",
     "qof", "resh", "shin", "tav"}

\* the text of a parameter name
Chars(parameter) ==
    CASE parameter = "client_name" -> <<"c", "l", "i", "e", "n", "t", "_", "n", "a", "m", "e">>
      [] parameter = "tender_name" -> <<"t", "e", "n", "d", "e", "r", "_", "n", "a", "m", "e">>
      [] parameter = "threshold_conditions" ->
           <<"t", "h", "r", "e", "s", "h", "o", "l", "d", "_", "c", "o", "n", "d", "i", "t", "i", "o", "n", "s">>
      [] parameter = "idea_author" -> <<"i", "d", "e", "a", "_", "a", "u", "t", "h", "o", "r">>
      [] parameter = "budget" -> <<"b", "u", "d", "g", "e", "t">>
      [] parameter = "start_date" -> <<"s", "t", "a", "r", "t", "_", "d", "a", "t", "e">>

\* ParameterMatch.__init__
ParameterMatch(parameter, ps, confidence) ==
    [parameter |-> parameter,
     pages |-> ps,
     confidence |-> confidence,
     page_numbers |-> [i \in 1..Len(ps) |-> ps[i].page_number]]

\* list.sort(key=...) on [key, item] pairs: stable.  A sort with
\* reverse=True is the sort on the negated keys, which keeps equal elements
\* in their order as Python does.
RECURSIVE InsertAsc(_, _)
InsertAsc(x, q) ==
    IF q = <<>> THEN <<x>>
    ELSE IF Head(q).key <= x.key THEN <<Head(q)>> \o InsertAsc(x, Tail(q))
    ELSE <<x>> \o q

RECURSIVE SortAscKeyed(_)
SortAscKeyed(q) ==
    IF q = <<>> THEN <<>>
    ELSE InsertAsc(q[Len(q)], SortAscKeyed(SubSeq(q, 1, Len(q) - 1)))

\* candidate_pages.sort(key=lambda p: p.word_count, reverse=True)
SortByWordCountDesc(ps) ==
    LET sorted == SortAscKeyed([i \in 1..Len(ps) |->
                                 [key |-> 0 - ps[i].word_count, item |-> ps[i]]])
    IN [i \in 1..Len(sorted) |-> sorted[i].item]

\* variant that leaves the candidates in the order they were selected
SortByPageNumber_none(ps) == ps

\* candidate_pages.sort(key=lambda p: p.page_number)
SortByPageNumber(ps) ==
    LET sorted == SortAscKeyed([i \in 1..Len(ps) |->
                                 [key |-> ps[i].page_number, item |-> ps[i]]])
    IN [i \in 1..Len(sorted) |-> sorted[i].item]

Prefix(q, n) == SubSeq(q, 1, IF n < Len(q) THEN n ELSE Len(q))

\* str.replace('_', ' ')
ReplaceUnderscore(str) ==
    [i \in 1..Len(str) |-> IF str[i] = "_" THEN " " ELSE str[i]]

\* pattern.format(parameter=parameter); the element "{parameter}" of a
\* pattern is the replacement field
RECURSIVE Format(_, _)
Format(pattern, str) ==
    IF pattern = <<>> THEN <<>>
    ELSE (IF Head(pattern) = "{parameter}" THEN str ELSE <<Head(pattern)>>)
         \o Format(Tail(pattern), str)

\* _generate_parameter_keywords
_generate_parameter_keywords(cfg, parameter) ==
    LET transformations == cfg.generic_search
        additional_patterns == transformations.additional_patterns
    IN (IF transformations.include_original
        THEN <<Chars(parameter)>> ELSE <<>>)
       \o (IF transformations.replace_underscore
           THEN <<ReplaceUnderscore(Chars(parameter))>> ELSE <<>>)
       \o [i \in 1..Len(additional_patterns) |->
             Format(additional_patterns[i], Chars(parameter))]

\* _search_pages_by_keywords, lines 348-365: twice the score of one page
\* (the Hebrew bonus is a multiple of one half)
Score2(page, keywords) ==
    LET content_lower == Lower(page.cleaned_content)
        One(keyword) ==
          LET keyword_lower == Lower(keyword)
              keyword_count == CountFrom(keyword_lower, content_lower, 1)
              word_boundary_matches == WordMatchesFrom(keyword_lower, content_lower, 1)
          IN 2 * keyword_count + 4 * word_boundary_matches
             + (IF \E i \in 1..Len(keyword) : keyword[i] \in HebrewChars
                THEN 3 * keyword_count ELSE 0)
    IN SumSeq([k \in 1..Len(keywords) |-> One(keywords[k])])

\* `if not a: a = b`
OrElse(a, b) == IF a # <<>> THEN a ELSE b

\* variant that keeps every page with a score of at least one
Qualified_any_hit(score, max_score) == score >= 2

\* _search_pages_by_keywords, lines 378-388: score >= min_score_threshold,
\* that is max(1.0, max_score * 0.3), on twice the scores
Qualified(score, max_score) == score >= 2 /\ 10 * score >= 3 * max_score

\* _search_pages_by_keywords, lines 384-393: the selection loop over the
\* sorted (page, score) pairs from position i on; a pair's key is minus
\* twice its score, and the first pair has the highest score
RECURSIVE SelectDiverse(_, _, _, _, _)
SelectDiverse(page_scores, i, selected_pages, used_ranges, max_pages) ==
    IF i > Len(page_scores) THEN selected_pages
    ELSE
      LET page == page_scores[i].item
          page_range == page.page_number \div 10
          take ==
            /\ Qualified(0 - page_scores[i].key, 0 - page_scores[1].key)
            /\ Len(selected_pages) < max_pages
            /\ \/ page_range \notin used_ranges
               \/ Len(selected_pages) < max_pages \div 2
      IN IF take
         THEN SelectDiverse(page_scores, i + 1, Append(selected_pages, page),
                            used_ranges \cup {page_range}, max_pages)
         ELSE SelectDiverse(page_scores, i + 1, selected_pages, used_ranges,
                            max_pages)

\* variant that returns the first max_pages of qualified_pages (line 381)
_search_pages_by_keywords_qualified(ps, keywords, max_pages) ==
    LET page_scores ==
          SortAscKeyed(
            SelectSeq([i \in 1..Len(ps) |->
                         [key |-> 0 - Score2(ps[i], keywords), item |-> ps[i]]],
                      LAMBDA e : e.item.word_count # 0 /\ e.key < 0))
        IsQualified(e) == Qualified(0 - e.key, 0 - page_scores[1].key)
        qualified_pages == SelectSeq(page_scores, IsQualified)
    IN [k \in 1..Len(Prefix(qualified_pages, max_pages)) |->
           qualified_pages[k].item]

\* _search_pages_by_keywords: the pages with words and a positive score,
\* sorted by descending score, then selected
_search_pages_by_keywords(ps, keywords, max_pages) ==
    LET Scored(e) == e.item.word_count # 0 /\ e.key < 0
    IN Prefix(
         SelectDiverse(
           SortAscKeyed(
             SelectSeq([i \in 1..Len(ps) |->
                          [key |-> 0 - Score2(ps[i], keywords),
                           item |-> ps[i]]],
                       Scored)),
           1, <<>>, {}, max_pages),
         max_pages)

\* _find_tender_name_pages
_find_tender_name_pages(cfg, ps) ==
    LET keywords == DictGet(cfg.parameter_keywords, "tender_name", <<>>)
        early_pages == Prefix(ps, 15)
    IN OrElse(_search_pages_by_keywords(early_pages, keywords, 2),
              _search_pages_by_keywords(ps, keywords, 3))

\* _find_author_pages, lines 299-308: combine and deduplicate
RECURSIVE Deduplicate(_, _)
Deduplicate(all_matches, seen_pages) ==
    IF all_matches = <<>> THEN <<>>
    ELSE IF Head(all_matches).page_number \in seen_pages
         THEN Deduplicate(Tail(all_matches), seen_pages)
         ELSE <<Head(all_matches)>>
              \o Deduplicate(Tail(all_matches),
                             seen_pages \cup {Head(all_matches).page_number})

\* _find_author_pages
_find_author_pages(cfg, ps) ==
    LET keywords == DictGet(cfg.parameter_keywords, "idea_author", <<>>)
        n == Len(ps)
        last3 == SubSeq(ps, IF n > 3 THEN n - 2 ELSE 1, n)
        early_matches == _search_pages_by_keywords(Prefix(ps, 3), keywords, 2)
        late_matches == _search_pages_by_keywords(last3, keywords, 2)
    IN Deduplicate(early_matches \o late_matches, {})

\* _find_pages_by_content_analysis, with the strategies that are one search:
\* _find_client_name_pages (3 pages), _find_threshold_pages,
\* _find_period_pages, _find_evaluation_pages and _find_guarantee_pages
\* (4 pages), _generic_parameter_search (3 pages on generated keywords)
_find_pages_by_content_analysis(cfg, parameter, ps) ==
    CASE parameter = "client_name" ->
           _search_pages_by_keywords(
               ps, DictGet(cfg.parameter_keywords, "client_name", <<>>), 3)
      [] parameter = "tender_name" -> _find_tender_name_pages(cfg, ps)
      [] parameter \in {"threshold_conditions", "contract_period",
                        "evaluation_method", "bid_guarantee"} ->
           _search_pages_by_keywords(
               ps, DictGet(cfg.parameter_keywords, parameter, <<>>), 4)
      [] parameter = "idea_author" -> _find_author_pages(cfg, ps)
      [] OTHER ->
           _search_pages_by_keywords(
               ps, _generate_parameter_keywords(cfg, parameter), 3)

\* PageTagger.get_pages_with_parameter
get_pages_with_parameter(ps, parameter) ==
    LET Relevant(page) ==
          \E i \in 1..Len(page.relevant_parameters) :
             page.relevant_parameters[i] = parameter
    IN SelectSeq(ps, Relevant)

\* _use_fallback_strategy, lines 427-431: one page per range of twenty
RECURSIVE SelectByTwenties(_, _, _)
SelectByTwenties(content_pages, selected_pages, used_ranges) ==
    IF content_pages = <<>> THEN selected_pages
    ELSE
      LET page == Head(content_pages)
          page_range == page.page_number \div 20
      IN IF page_range \notin used_ranges /\ Len(selected_pages) < 3
         THEN SelectByTwenties(Tail(content_pages),
                               Append(selected_pages, page),
                               used_ranges \cup {page_range})
         ELSE SelectByTwenties(Tail(content_pages), selected_pages,
                               used_ranges)


\* variant without the last resort: no page when no page has enough words
ContentRichPages_no_last_resort(content_pages, ps) ==
    IF content_pages = <<>> THEN <<>>
    ELSE Prefix(SelectByTwenties(SortByWordCountDesc(content_pages), <<>>, {}),
                3)

\* _use_fallback_strategy, lines 408-438: the content-rich pages
ContentRichPages(content_pages, ps) ==
    LET sorted == SortByWordCountDesc(content_pages)
        diverse == SelectByTwenties(sorted, <<>>, {})
        Unselected(page) ==
          \A i \in 1..Len(diverse) :
             diverse[i].page_number # page.page_number
        remaining == SelectSeq(sorted, Unselected)
        selected_pages ==
          IF Len(diverse) < 3
          THEN diverse \o Prefix(remaining, 3 - Len(diverse))
          ELSE diverse
    IN IF content_pages = <<>> THEN Prefix(ps, 3)
       ELSE Prefix(selected_pages, 3)

\* variant that takes every page of more than 50 words as content page
_use_fallback_strategy_any_content(cfg, parameter, ps) ==
    LET Reasonable(page) == page.word_count > 50
    IN OrElse(_search_pages_by_keywords(
                  ps, _generate_parameter_keywords(cfg, parameter), 3),
              ContentRichPages(SelectSeq(ps, Reasonable), ps))

\* _use_fallback_strategy
_use_fallback_strategy(cfg, parameter, ps) ==
    LET Moderate(page) == 100 <= page.word_count /\ page.word_count <= 800
        Reasonable(page) == page.word_count > 50
    IN OrElse(_search_pages_by_keywords(
                  ps, _generate_parameter_keywords(cfg, parameter), 3),
              ContentRichPages(OrElse(SelectSeq(ps, Moderate),
                                      SelectSeq(ps, Reasonable)),
                               ps))

\* variant that always divides by three, counting a missing classifier
\* confidence as a factor of zero
_calculate_match_confidence_thirds(parameter, ps) ==
    IF ps = <<>> THEN Zero
    ELSE
      LET One == <<1, 1>>
          page_count_score == RatMin(Rat(Len(ps), 3), One)
          total_words == SumSeq([i \in 1..Len(ps) |-> ps[i].word_count])
          content_score == RatMin(Rat(total_words, Len(ps) * 500), One)
          Scored(page) == DictHas(page.parameter_confidence, parameter)
          scored == SelectSeq(ps, Scored)
          param_confidence_scores ==
            [i \in 1..Len(scored) |->
               DictGet(scored[i].parameter_confidence, parameter, Zero)]
          confidence_factors ==
            <<page_count_score, content_score>>
            \o (IF param_confidence_scores # <<>>
                THEN <<RatDivInt(RatSum(param_confidence_scores),
                                 Len(param_confidence_scores))>>
                ELSE <<>>)
      IN RatDivInt(RatSum(confidence_factors), 3)

\* _calculate_match_confidence
_calculate_match_confidence(parameter, ps) ==
    IF ps = <<>> THEN Zero
    ELSE
      LET One == <<1, 1>>
          page_count_score == RatMin(Rat(Len(ps), 3), One)
          total_words == SumSeq([i \in 1..Len(ps) |-> ps[i].word_count])
          content_score == RatMin(Rat(total_words, Len(ps) * 500), One)
          Scored(page) == DictHas(page.parameter_confidence, parameter)
          scored == SelectSeq(ps, Scored)
          param_confidence_scores ==
            [i \in 1..Len(scored) |->
               DictGet(scored[i].parameter_confidence, parameter, Zero)]
          confidence_factors ==
            <<page_count_score, content_score>>
            \o (IF param_confidence_scores # <<>>
                THEN <<RatDivInt(RatSum(param_confidence_scores),
                                 Len(param_confidence_scores))>>
                ELSE <<>>)
      IN RatDivInt(RatSum(confidence_factors), Len(confidence_factors))

\* variant that cuts the tagger's pages to four without sorting them
TaggedCandidates_unsorted(tagged) ==
    IF Len(tagged) > 6 THEN Prefix(tagged, 4)
    ELSE tagged

\* _match_single_parameter, lines 219-223: the pages the tagger marked
TaggedCandidates(tagged) ==
    IF Len(tagged) > 6 THEN Prefix(SortByWordCountDesc(tagged), 4)
    ELSE tagged

\* variant that consults the fallback strategy before the tagger's pages
CandidatePages_fallback_first(cfg, parameter, ps) ==
    OrElse(OrElse(_find_pages_by_content_analysis(cfg, parameter, ps),
                  _use_fallback_strategy(cfg, parameter, ps)),
           TaggedCandidates(get_pages_with_parameter(ps, parameter)))

\* _match_single_parameter, lines 213-227: candidate_pages after the tiers
CandidatePages(cfg, parameter, ps) ==
    OrElse(OrElse(_find_pages_by_content_analysis(cfg, parameter, ps),
                  TaggedCandidates(get_pages_with_parameter(ps, parameter))),
           _use_fallback_strategy(cfg, parameter, ps))

\* _match_single_parameter, lines 229-235
MatchOf(parameter, candidate_pages) ==
    ParameterMatch(parameter, SortByPageNumber(candidate_pages),
                   _calculate_match_confidence(parameter, candidate_pages))

\* variant without the special handling of 'idea_author'
_match_single_parameter_plain(cfg, parameter, ps) ==
    MatchOf(parameter, CandidatePages(cfg, parameter, ps))

\* _match_single_parameter
_match_single_parameter(cfg, parameter, ps) ==
    IF parameter = "idea_author"
    THEN ParameterMatch(parameter, <<>>, Zero)
    ELSE MatchOf(parameter, CandidatePages(cfg, parameter, ps))

\* ParameterMatcher.match_parameters_to_pages as one step
MatchParameters(next) ==
    /\ pc = "match"
    /\ matches' = [i \in 1..Len(parameters) |->
                     _match_single_parameter(kwcfg, parameters[i], pages)]
    /\ pc' = next
    /\ UNCHANGED <<retry_attempts, prompts, responses, attempt, apilog,
                   config, parameters, pages, kwcfg, outVars, fnVars>>

(***************************************************************************)
(* prompt_builder.py                                                       *)
(***************************************************************************)
\* str(n) for n >= 0
RECURSIVE Str(_)
Str(n) ==
    LET digit == <<"0", "1", "2", "3", "4", "5", "6", "7", "8", "9">>
    IN IF n < 10 THEN <<digit[n + 1]>>
       ELSE Str(n \div 10) \o <<digit[(n % 10) + 1]>>


\* build_extraction_prompt, lines 232-235: the page sections
RECURSIVE PageSections(_)
PageSections(ps) ==
    IF ps = <<>> THEN <<>>
    ELSE (IF Head(ps).word_count > 0
          THEN <<"\n">> \o Txt.PAGE \o Str(Head(ps).page_number) \o <<"\n">>
               \o Head(ps).cleaned_content
          ELSE <<>>)
         \o PageSections(Tail(ps))

\* build_extraction_prompt: the task line for the parameter, the page
\* sections, the closing request (the fixed wording in between is left out)
build_extraction_prompt(parameter_match) ==
    Txt.TASK \o <<":", " ">> \o Chars(parameter_match.parameter)
    \o PageSections(parameter_match.pages)
    \o <<"\n">> \o <<"E", "x", "t", "r", "a", "c", "t">>

\* build_batch_prompts
build_batch_prompts(parameter_matches) ==
    [i \in 1..Len(parameter_matches) |->
       LET match == parameter_matches[i]
       IN IF match.pages # <<>>
          THEN [parameter |-> match.parameter,
                prompt |-> build_extraction_prompt(match),
                page_count |-> Len(match.pages),
                confidence |-> match.confidence,
                page_numbers |->
                   [k \in 1..Len(match.pages) |-> match.pages[k].page_number]]
          ELSE [parameter |-> match.parameter,
                prompt |-> Null,
                page_count |-> 0,
                confidence |-> Zero,
                page_numbers |-> <<>>]]

\* main.build_prompts as one step
BuildPrompts(next) ==
    /\ pc = "build"
    /\ prompts' = build_batch_prompts(matches)
    /\ apilog' = [i \in 0..Len(matches) |-> <<>>]
    /\ pc' = next
    /\ UNCHANGED <<retry_attempts, responses, attempt, docVars, outVars,
                   fnVars>>

(***************************************************************************)
(* output_formatter.py                                                     *)
(***************************************************************************)
\* variant without the lowest threshold: score 0 below 0.4
_convert_confidence_to_score_no_one(confidence) ==
    IF RatGE(confidence, 9, 10) THEN 5
    ELSE IF RatGE(confidence, 8, 10) THEN 4
    ELSE IF RatGE(confidence, 6, 10) THEN 3
    ELSE IF RatGE(confidence, 4, 10) THEN 2
    ELSE 0

\* variant with a strict comparison at the top threshold
_convert_confidence_to_score_strict(confidence) ==
    IF ~ RatGE(<<9, 10>>, confidence[1], confidence[2]) THEN 5
    ELSE IF RatGE(confidence, 8, 10) THEN 4
    ELSE IF RatGE(confidence, 6, 10) THEN 3
    ELSE IF RatGE(confidence, 4, 10) THEN 2
    ELSE IF RatGE(confidence, 2, 10) THEN 1
    ELSE 0

\* _convert_confidence_to_score
_convert_confidence_to_score(confidence) ==
    IF RatGE(confidence, 9, 10) THEN 5
    ELSE IF RatGE(confidence, 8, 10) THEN 4
    ELSE IF RatGE(confidence, 6, 10) THEN 3
    ELSE IF RatGE(confidence, 4, 10) THEN 2
    ELSE IF RatGE(confidence, 2, 10) THEN 1
    ELSE 0

\* a Python value with its type, as isinstance sees it
IntVal(n) == [t |-> "int", v |-> n]
FloatVal(n) == [t |-> "float", v |-> n]

\* sorted(page_numbers)
RECURSIVE SortAsc(_)
SortAsc(q) ==
    IF q = <<>> THEN <<>>
    ELSE LET m == CHOOSE x \in {q[i] : i \in 1..Len(q)} :
                      \A i \in 1..Len(q) : x <= q[i]
             k == CHOOSE i \in 1..Len(q) : q[i] = m
         IN <<m>> \o SortAsc(SubSeq(q, 1, k - 1) \o SubSeq(q, k + 1, Len(q)))

\* the source text: "lo_nimtsa" stands for the fixed not-found phrase and
\* "amud" for the fixed page label; the entries are joined with ", "
SourceNotFound == <<[label |-> "lo_nimtsa", page |-> 0]>>

\* variant that lists the pages in the order of the response
_generate_source_unsorted(response) ==
    IF ~ response.is_found \/ response.page_numbers = <<>>
    THEN SourceNotFound
    ELSE [i \in 1..Len(response.page_numbers) |->
             [label |-> "amud", page |-> response.page_numbers[i]]]

\* _generate_source
_generate_source(response) ==
    IF ~ response.is_found \/ response.page_numbers = <<>>
    THEN SourceNotFound
    ELSE LET sorted_pages == SortAsc(response.page_numbers)
         IN [i \in 1..Len(sorted_pages) |->
                [label |-> "amud", page |-> sorted_pages[i]]]

\* variant that adds an item for the key even when the key is present
DictSet_append(d, key, value) ==
    Append(d, [key |-> key, value |-> value])

\* result[key] = value on a dict kept as its list of items
DictSet(d, key, value) ==
    IF \E i \in 1..Len(d) : d[i].key = key
    THEN [i \in 1..Len(d) |->
            IF d[i].key = key THEN [key |-> key, value |-> value] ELSE d[i]]
    ELSE Append(d, [key |-> key, value |-> value])

\* format_results, lines 46-57
RECURSIVE FormatInto(_, _)
FormatInto(result, rs) ==
    IF rs = <<>> THEN result
    ELSE LET response == Head(rs)
         IN FormatInto(
              DictSet(result, response.parameter,
                [answer |-> IF response.is_found
                            THEN response.extracted_value ELSE <<>>,
                 details |-> IF response.is_found
                             THEN response.details ELSE <<>>,
                 source |-> _generate_source(response),
                 score |-> IntVal(_convert_confidence_to_score(
                                      response.confidence))]),
              Tail(rs))

format_results(rs) == FormatInto(<<>>, rs)

required_fields == {"answer", "details", "source", "score"}

\* variant without the range check of the score
validate_output_norange(res) ==
    \A i \in 1..Len(res) :
       LET data == res[i].value
       IN /\ \A field \in required_fields : field \in DOMAIN data
          /\ data.score.t = "int"

\* validate_output
validate_output(res) ==
    \A i \in 1..Len(res) :
       LET data == res[i].value
       IN /\ \A field \in required_fields : field \in DOMAIN data
          /\ data.score.t = "int"
          /\ ~ (data.score.v < 0 \/ data.score.v > 5)

\* write_results_to_file, write_summary_report, write_csv_export in the
\* order of format_and_save_results; n of them succeed
FilesWritten(n) ==
    CASE n = 0 -> {}
      [] n = 1 -> {"json"}
      [] n = 2 -> {"json", "summary"}
      [] OTHER -> {"json", "summary", "csv"}

\* format_and_save_results, lines 199-213, on the formatted results res
SaveResults(res, n) ==
    /\ results' = res
    /\ validated' = validate_output(res)
    /\ IF validate_output(res)
       THEN /\ files' = FilesWritten(n)
            /\ pc' = IF n = 3 THEN "display" ELSE "failed"
       ELSE /\ files' = files
            /\ pc' = "failed"

(***************************************************************************)
(* SpecScore: _convert_confidence_to_score on two confidences              *)
(***************************************************************************)
Confidences == {Rat(k, ScoreGrid) : k \in 0..ScoreGrid}

InitScore ==
    /\ pc = "score"
    /\ arg \in Confidences \X Confidences
    /\ ret = Null
    /\ NoExtraction
    /\ NoDocument
    /\ NoOutput

ConvertScores ==
    /\ pc = "score"
    /\ ret' = <<_convert_confidence_to_score(arg[1]),
                _convert_confidence_to_score(arg[2])>>
    /\ pc' = "scored"
    /\ UNCHANGED <<retry_attempts, prompts, responses, attempt, apilog,
                   docVars, outVars, arg>>

SpecScore == InitScore /\ [][ConvertScores]_vars

(***************************************************************************)
(* SpecResponse: extract_parameter from the API result on                  *)
(***************************************************************************)
AnswerChars == {"n", "a", "N", "7", " ", "\""}
AnswerTexts == SeqsUpTo(AnswerChars, MaxLen)
DetailTexts ==
    {Missing, <<>>, Txt.info,
     <<"a", " ", "a", " ", "a", " ", "a", " ", "a", " ", "a">>}

ApiResults ==
    [kind : {"json", "text"}, answer : AnswerTexts \cup {Missing, Null, JNumber},
     details : DetailTexts]
    \cup {[kind |-> "blank", answer |-> Missing, details |-> Missing]}

ThePrompt ==
    [parameter |-> "client_name", prompt |-> Txt.TASK, page_count |-> 1,
     confidence |-> Rat(1, 2), page_numbers |-> <<1>>]

InitResponse ==
    /\ pc = "process"
    /\ arg \in ApiResults
    /\ ret = Null
    /\ NoExtraction
    /\ NoDocument
    /\ NoOutput

ProcessApiResult ==
    /\ pc = "process"
    /\ ret' = ProcessedResponse(ThePrompt, arg)
    /\ pc' = "processed"
    /\ UNCHANGED <<retry_attempts, prompts, responses, attempt, apilog,
                   docVars, outVars, arg>>

SpecResponse == InitResponse /\ [][ProcessApiResult]_vars

(***************************************************************************)
(* SpecValidate: validate_output and the writes of                         *)
(* format_and_save_results on any results dict                             *)
(***************************************************************************)
ScoreValues == {IntVal(-1), IntVal(0), IntVal(5), IntVal(6), FloatVal(3)}

RecordsOver(fields) ==
    IF "score" \in fields
    THEN {[f \in fields |-> IF f = "score" THEN sc ELSE <<>>] : sc \in ScoreValues}
    ELSE {[f \in fields |-> <<>>]}

OutputRecords == UNION {RecordsOver(fields) : fields \in SUBSET required_fields}

ResultKeys == <<"client_name", "tender_name", "idea_author", "bid_guarantee">>

ResultDicts ==
    UNION {{[i \in 1..k |-> [key |-> ResultKeys[i], value |-> v[i]]] :
              v \in [1..k -> OutputRecords]} : k \in 1..MaxParams}

InitValidate ==
    /\ pc = "validate"
    /\ arg \in ResultDicts
    /\ ret = Null
    /\ NoExtraction
    /\ NoDocument
    /\ NoOutput

ValidateAndSave ==
    /\ pc = "validate"
    /\ \E n \in 0..3 : SaveResults(arg, n)
    /\ UNCHANGED <<retry_attempts, prompts, responses, attempt, apilog,
                   docVars, fnVars>>

SpecValidate == InitValidate /\ [][ValidateAndSave]_vars

(***************************************************************************)
(* SpecTagger: tag_pages on any short document, under three keyword files  *)
(***************************************************************************)
MaxTagPages == 6

Item(key, value) == [key |-> key, value |-> value]

\* the page types of config/keywords_config.json, in enumeration order
TypeKeywords ==
    <<Item("cover_page", <<Txt.tender>>),
      Item("table_of_contents", <<Txt.index>>),
      Item("legal_terms", <<Txt.law>>),
      Item("other", <<>>)>>

\* config/keywords_config.json as _load_keywords_from_config reads it, for a
\* given page_classification section; the file has no 'generic_search'
\* section, so the default of lines 91-97 applies
Config(page_type_keywords) ==
    [page_type_keywords |-> page_type_keywords,
     parameter_keywords |->
        <<Item("client_name", <<Txt.client>>),
          Item("tender_name", <<Txt.tender>>),
          Item("threshold_conditions", <<Txt.minimum>>),
          Item("idea_author", <<Txt.author>>),
          Item("budget", <<Txt.cost>>)>>,
     generic_search |->
        [include_original |-> TRUE, replace_underscore |-> TRUE,
         additional_patterns |-> <<>>]]

\* the page types in enumeration order, in another order, and none at all
TaggerConfigs ==
    {Config(TypeKeywords),
     Config(<<Item("legal_terms", <<Txt.law>>),
              Item("cover_page", <<Txt.tender>>),
              Item("other", <<>>)>>),
     Config(<<>>)}

\* raw page texts: whitespace only, two types level, 'contents' next to a
\* keyword of another type, a keyword inside a longer word
TagTexts ==
    {<<" ">>,
     <<"T", "e", "n", "d", "e", "r", " ", "l", "a", "w">>,
     <<"l", "a", "w", " ", " ", "c", "o", "n", "t", "e", "n", "t", "s">>,
     <<"t", "e", "n", "d", "e", "r", "s", " ", "c", "l", "i", "e", "n", "t">>}

Kind(text, filler) == [text |-> text, filler |-> filler]

\* DocumentParser.parse_pdf: pages 1..n, those at the numbers of `placed` of
\* the given kinds and the others without text
DocumentOf(placed) ==
    LET n == CHOOSE m \in DOMAIN placed : \A x \in DOMAIN placed : x <= m
    IN [i \in 1..n |->
          IF i \in DOMAIN placed
          THEN DocumentPage(i, placed[i].text, placed[i].filler)
          ELSE DocumentPage(i, <<>>, 0)]

InitTagger ==
    /\ pc = "tag"
    /\ kwcfg \in TaggerConfigs
    /\ config = Null
    /\ \E texts \in SeqsUpTo(TagTexts, MaxTagPages) \ {<<>>} :
         pages = DocumentOf([i \in 1..Len(texts) |-> Kind(texts[i], 0)])
    /\ parameters = <<>>
    /\ matches = <<>>
    /\ NoExtraction
    /\ NoOutput
    /\ NoFunction

SpecTagger == InitTagger /\ [][TagPages("tagged")]_vars

(***************************************************************************)
(* SpecMatch: match_parameters_to_pages for one parameter on tagged        *)
(* documents whose pages with text lie on a few page numbers               *)
(***************************************************************************)
MaxContentPages == 4

\* ConfigManager.get_max_pages_per_prompt: the default
max_pages_per_prompt == 3

MatchParams ==
    {"client_name", "tender_name", "threshold_conditions", "idea_author",
     "budget", "start_date"}

\* the page numbers that may carry text: three in the first ten, one in the
\* second ten, one past the first twenty
Slots == {1, 2, 3, 11, 21}

\* pages around a keyword kw: no text; plain text; the keyword once; the
\* keyword twice and once inside a longer word, on a short page; the keyword
\* only inside a longer word, on a long page
KeywordKinds(kw) ==
    {Kind(<<>>, 0),
     Kind(<<>>, 150),
     Kind(kw, 150),
     Kind(kw \o <<" ">> \o kw \o <<" ">> \o kw \o <<"s">>, 60),
     Kind(kw \o <<"s">>, 900)}

\* the kinds of page a document for `parameter` is made of
KindsFor(parameter) ==
    CASE parameter = "client_name" -> KeywordKinds(Txt.client)
      [] parameter = "tender_name" -> KeywordKinds(Txt.tender)
      [] parameter = "threshold_conditions" -> KeywordKinds(Txt.minimum)
      [] parameter = "idea_author" ->
           {Kind(<<>>, 0), Kind(<<>>, 150), Kind(Txt.author, 150)}
      [] parameter = "budget" ->
           \* 'cost' is the tagger's keyword, 'budget' the parameter's name
           {Kind(<<>>, 0), Kind(<<>>, 60), Kind(<<>>, 150),
            Kind(Txt.cost, 150), Kind(Chars("budget"), 60)}
      [] parameter = "start_date" ->
           {Kind(<<>>, 0), Kind(<<>>, 30), Kind(<<>>, 150), Kind(<<>>, 900),
            Kind(ReplaceUnderscore(Chars("start_date")), 60)}

\* the longest document whose every page may carry the tagger's keyword
MaxTaggedPages == 7

\* a document with text on a few of the page numbers of Slots, or a long
\* document for 'budget' whose pages hold the tagger's keyword on a short or
\* on a longer page, or plain text
InitMatch ==
    /\ pc = "match"
    /\ config = Null
    /\ kwcfg = Config(TypeKeywords)
    /\ \/ \E parameter \in MatchParams :
            \E L \in {X \in SUBSET Slots :
                        X # {} /\ Cardinality(X) <= MaxContentPages} :
               \E placed \in [L -> KindsFor(parameter)] :
                  /\ parameters = <<parameter>>
                  /\ pages = tag_pages(kwcfg, DocumentOf(placed))
       \/ \E n \in 6..MaxTaggedPages :
            \E placed \in [1..n -> {Kind(Txt.cost, 60), Kind(Txt.cost, 150),
                                    Kind(<<>>, 150)}] :
               /\ parameters = <<"budget">>
               /\ pages = tag_pages(kwcfg, DocumentOf(placed))
    /\ matches = <<>>
    /\ NoExtraction
    /\ NoOutput
    /\ NoFunction

SpecMatch == InitMatch /\ [][MatchParameters("matched")]_vars

(***************************************************************************)
(* Spec: main() from load_data to print_results_to_console                 *)
(***************************************************************************)
MaxDocPages == 2
MaxListed == 2

\* what the model answers in a run of main()
PipelineTexts ==
    { [kind |-> "json", answer |-> Txt.Acme, details |-> Txt.info],
      [kind |-> "json", answer |-> Txt.na, details |-> Txt.info],
      [kind |-> "json", answer |-> <<>>, details |-> Txt.maybe],
      [kind |-> "blank"] }

\* main, line 270: ConfigManager() raises or returns
LoadConfiguration ==
    /\ pc = "config"
    /\ pc' = IF _load_configuration(config) = "InvalidConfigurationError"
             THEN "failed" ELSE "load"
    /\ UNCHANGED <<retry_attempts, prompts, responses, attempt, apilog,
                   docVars, outVars, fnVars>>

\* the configuration files as main() finds them.  config/app_config.json
\* is absent, not JSON, or a JSON object holding some of the required keys
\* (`existing` holds the path keys whose file exists), retry_attempts and
\* max_tokens_per_page, left at its default of 4000 or set to 2;
\* config/keywords_config.json comes with or without page types, is absent
\* or holds JSON that is no object.
Init ==
    /\ pc = "config"
    /\ config \in
         {[file |-> "missing", keys |-> {}, existing |-> {}],
          [file |-> "bad_json", keys |-> {}, existing |-> {}]}
         \cup [file : {"json"}, keys : SUBSET required_keys,
               existing : SUBSET {"pdf_input_path", "parameters_json_path"},
               max_tokens_per_page : {2, 4000}]
    /\ retry_attempts \in {0, 1, 2}
    /\ kwcfg \in {Config(TypeKeywords), Config(<<>>), Missing, Null}
    /\ parameters = <<>>
    /\ pages = <<>>
    /\ matches = <<>>
    /\ prompts = <<>>
    /\ responses = <<>>
    /\ attempt = 0
    /\ apilog = <<>>
    /\ NoOutput
    /\ NoFunction

\* main.load_data: the PDF parses into pages 1..n and the parameters file
\* holds a list of names
LoadData ==
    /\ pc = "load"
    /\ \E kinds \in SeqsUpTo({Kind(<<>>, 0), Kind(Txt.client, 150),
                              Kind(Txt.author, 150)}, MaxDocPages) \ {<<>>} :
         pages' = DocumentOf(kinds)
    /\ parameters' \in SeqsUpTo({"client_name", "idea_author", "start_date"},
                                MaxListed)
    /\ pc' = "tagger"
    /\ UNCHANGED <<retry_attempts, prompts, responses, attempt, apilog,
                   config, kwcfg, matches, outVars, fnVars>>

\* main.tag_pages, line 77: PageTagger(config_manager) raises or returns
ConstructTagger ==
    /\ pc = "tagger"
    /\ pc' = IF PageTagger_init(kwcfg) = "ok" THEN "tag" ELSE "failed"
    /\ UNCHANGED <<retry_attempts, prompts, responses, attempt, apilog,
                   docVars, outVars, fnVars>>

\* main.load_data raises: invalid PDF, no pages extracted, unreadable
\* parameters file
LoadFails ==
    /\ pc = "load"
    /\ pc' = "failed"
    /\ UNCHANGED <<retry_attempts, prompts, responses, attempt, apilog,
                   docVars, outVars, fnVars>>

\* extract_parameters_with_llm, line 166: test_connection starts its call
TestConnection ==
    /\ pc = "connect"
    /\ attempt' = 0
    /\ pc' = IF retry_attempts <= 0 THEN "failed" ELSE "test_call"
    /\ UNCHANGED <<retry_attempts, prompts, responses, apilog, docVars,
                   outVars, fnVars>>

\* _make_api_call_with_retry under test_connection: one generate_content
\* call; test_connection returning False makes main raise LLMAPIError
TestCall ==
    /\ pc = "test_call"
    /\ \E r \in PipelineTexts \cup ApiFailures :
         /\ apilog' = [apilog EXCEPT
                         ![0] = Append(@, CallEvent(attempt, ~ IsFailure(r)))]
         /\ pc' = IF ~ IsFailure(r) THEN "batch"
                  ELSE IF attempt < retry_attempts - 1 THEN "test_sleep"
                  ELSE "failed"
    /\ UNCHANGED <<retry_attempts, prompts, responses, attempt, docVars,
                   outVars, fnVars>>

TestSleep ==
    /\ pc = "test_sleep"
    /\ apilog' = [apilog EXCEPT
                    ![0] = Append(@, SleepEvent(attempt, wait_time(attempt)))]
    /\ attempt' = attempt + 1
    /\ pc' = "test_call"
    /\ UNCHANGED <<retry_attempts, prompts, responses, docVars, outVars,
                   fnVars>>

PipelineApiSucceeds == \E r \in PipelineTexts : GenerateContent(r)

\* main.format_and_save_results
FormatAndSave ==
    /\ pc = "returned"
    /\ \E n \in 0..3 : SaveResults(format_results(responses), n)
    /\ UNCHANGED <<retry_attempts, prompts, responses, attempt, apilog,
                   docVars, fnVars>>

\* main.print_results_to_console and the return of main: the success rate
\* divides by the number of results
DisplayResults ==
    /\ pc = "display"
    /\ pc' = IF Len(results) = 0 THEN "failed" ELSE "done"
    /\ UNCHANGED <<retry_attempts, prompts, responses, attempt, apilog,
                   docVars, outVars, fnVars>>

Next ==
    \/ LoadConfiguration
    \/ LoadData
    \/ LoadFails
    \/ ConstructTagger
    \/ TagPages("match")
    \/ MatchParameters("build")
    \/ BuildPrompts("connect")
    \/ TestConnection
    \/ TestCall
    \/ TestSleep
    \/ BatchStep
    \/ PipelineApiSucceeds
    \/ ApiFails
    \/ Sleep
    \/ BatchReturn
    \/ FormatAndSave
    \/ DisplayResults

Spec == Init /\ [][Next]_vars

(***************************************************************************)
(* SpecConfidence: _calculate_match_confidence on any selection of pages   *)
(* of a tagged document                                                    *)
(***************************************************************************)
MaxConfidencePages == 3

\* a keyword file that lists two keywords for 'client_name', so that a
\* tagged page can hold half of them; pages without text, with many plain
\* words, with one keyword of 'client_name', with both, with the keyword of
\* 'budget'
InitConfidence ==
    /\ pc = "confidence"
    /\ config = Null
    /\ kwcfg = [Config(TypeKeywords) EXCEPT
                  !.parameter_keywords =
                     <<Item("client_name", <<Txt.client, Txt.tender>>),
                       Item("budget", <<Txt.cost>>)>>]
    /\ parameters \in {<<"client_name">>, <<"budget">>}
    /\ \E kinds \in SeqsUpTo({Kind(<<>>, 0), Kind(<<>>, 900),
                              Kind(Txt.client, 150),
                              Kind(Txt.client \o <<" ">> \o Txt.tender, 30),
                              Kind(Txt.cost, 600)},
                             MaxConfidencePages) \ {<<>>} :
         pages = tag_pages(kwcfg, DocumentOf(kinds))
    /\ matches = <<>>
    /\ NoExtraction
    /\ NoOutput
    /\ NoFunction

\* _calculate_match_confidence on the pages of the document at the numbers
\* of S
CalculateConfidence ==
    /\ pc = "confidence"
    /\ \E S \in SUBSET (1..Len(pages)) :
         LET Selected(page) == page.page_number \in S
         IN /\ arg' = SelectSeq(pages, Selected)
            /\ ret' = _calculate_match_confidence(parameters[1],
                                                  SelectSeq(pages, Selected))
    /\ pc' = "confident"
    /\ UNCHANGED <<retry_attempts, prompts, responses, attempt, apilog,
                   docVars, outVars>>

SpecConfidence == InitConfidence /\ [][CalculateConfidence]_vars

(***************************************************************************)
(* SpecFormat: format_and_save_results on any short list of responses      *)
(***************************************************************************)
MaxResponses == 2

InitFormat ==
    /\ pc = "returned"
    /\ responses \in
         SeqsUpTo({LLMResponse(parameter, value, Txt.info, confidence, numbers) :
                     parameter \in {"client_name", "budget"},
                     value \in {NOT_FOUND, Txt.Acme},
                     confidence \in {Zero, Rat(1, 2), Rat(9, 10)},
                     numbers \in {<<>>, <<1>>, <<2, 1>>, <<3, 1, 2>>}},
                  MaxResponses)
    /\ retry_attempts = 0
    /\ prompts = <<>>
    /\ attempt = 0
    /\ apilog = <<>>
    /\ NoDocument
    /\ NoOutput
    /\ NoFunction

SpecFormat == InitFormat /\ [][FormatAndSave]_vars

(***************************************************************************)
(* Properties                                                              *)
(***************************************************************************)
CallsOf(log) == {p \in 1..Len(log) : log[p].ev = "call"}

\* every generate_content call made for prompt i failed and the configured
\* number of attempts is used up
Exhausted(i) ==
    /\ retry_attempts >= 1
    /\ Cardinality(CallsOf(apilog[i])) = retry_attempts
    /\ \A p \in CallsOf(apilog[i]) : ~ apilog[i][p].ok

C3_RetryDiscipline ==
    retry_attempts >= 1 =>
      \A i \in 1..Len(prompts) :
        LET log == apilog[i]
            N == retry_attempts
        IN /\ Cardinality(CallsOf(log)) <= N
           /\ Len(log) <= 2 * N - 1
           /\ log # <<>> => log[1].ev = "call" /\ log[1].k = 0
           /\ \A p \in 1..Len(log) :
                 /\ (log[p].ev = "call" /\ log[p].ok) => p = Len(log)
                 /\ (log[p].ev = "call" /\ ~ log[p].ok /\ log[p].k < N - 1) =>
                        IF p < Len(log)
                        THEN /\ log[p + 1].ev = "sleep"
                             /\ log[p + 1].secs = 2 ^ log[p].k
                        ELSE pc = "sleep" /\ i = cur
                 /\ (log[p].ev = "call" /\ ~ log[p].ok /\ log[p].k >= N - 1) =>
                        /\ p = Len(log)
                        /\ log[p].k = N - 1
                        /\ i <= Len(responses)
                 /\ log[p].ev = "sleep" =>
                        IF p < Len(log)
                        THEN /\ log[p + 1].ev = "call"
                             /\ log[p + 1].k = log[p].k + 1
                        ELSE pc = "call" /\ i = cur

C3_Witness ==
    /\ retry_attempts >= 3
    /\ \E i \in 1..Len(responses) :
          /\ Len(apilog[i]) = 2 * retry_attempts - 1
          /\ ~ apilog[i][Len(apilog[i])].ok

WhitespaceOnly(s) == \A k \in 1..Len(s) : s[k] \in Whitespace

\* C4: a null, empty or whitespace-only prompt yields NOT_FOUND with
\* confidence 0.0 and generate_content is never invoked for it.
C4_EmptyPromptNoCall ==
    \A i \in 1..Len(prompts) :
       (prompts[i].prompt = Null \/ WhitespaceOnly(prompts[i].prompt)) =>
          /\ apilog[i] = <<>>
          /\ i <= Len(responses) =>
                /\ responses[i].extracted_value = NOT_FOUND
                /\ responses[i].confidence = <<0, 1>>

C4_Witness ==
    /\ pc = "returned"
    /\ \E i, j \in 1..Len(prompts) :
          /\ prompts[i].prompt # <<>>
          /\ WhitespaceOnly(prompts[i].prompt)
          /\ responses[i].extracted_value = NOT_FOUND
          /\ apilog[j] # <<>>

\* C7: _convert_confidence_to_score maps every confidence in [0,1] to one
\* integer in 0..5 by the thresholds >=0.9 -> 5, >=0.8 -> 4, >=0.6 -> 3,
\* >=0.4 -> 2, >=0.2 -> 1, otherwise 0, and is monotonically non-decreasing.
ScoreByThresholds(num, den, sc) ==
    /\ sc \in 0..5
    /\ sc = 5 <=> 10 * num >= 9 * den
    /\ sc = 4 <=> (10 * num >= 8 * den /\ 10 * num < 9 * den)
    /\ sc = 3 <=> (10 * num >= 6 * den /\ 10 * num < 8 * den)
    /\ sc = 2 <=> (10 * num >= 4 * den /\ 10 * num < 6 * den)
    /\ sc = 1 <=> (10 * num >= 2 * den /\ 10 * num < 4 * den)
    /\ sc = 0 <=> 10 * num < 2 * den

C7_ScoreThresholds ==
    pc = "scored" =>
       /\ ScoreByThresholds(arg[1][1], arg[1][2], ret[1])
       /\ ScoreByThresholds(arg[2][1], arg[2][2], ret[2])
       /\ (arg[1][1] * arg[2][2] <= arg[2][1] * arg[1][2]) => ret[1] <= ret[2]
       /\ (arg[1] = <<19, 20>> => ret[1] = 5)
       /\ (arg[1] = <<17, 20>> => ret[1] = 4)
       /\ (arg[1] = <<13, 20>> => ret[1] = 3)
       /\ (arg[1] = <<9, 20>> => ret[1] = 2)
       /\ (arg[1] = <<1, 4>> => ret[1] = 1)
       /\ (arg[1] = <<1, 20>> => ret[1] = 0)

C7_Witness ==
    /\ pc = "scored"
    /\ arg[1] = <<9, 10>>
    /\ arg[2] = <<19, 20>>
    /\ ret = <<5, 5>>

\* C8: validate_output returns false whenever a record lacks one of answer,
\* details, source, score or has a score that is not an integer in 0..5, and
\* no output file is written unless validate_output returned true.
InvalidRecord(data) ==
    \/ \E field \in {"answer", "details", "source", "score"} :
          field \notin DOMAIN data
    \/ data.score.t # "int"
    \/ data.score.v \notin 0..5

C8_ValidationGuardsFiles ==
    /\ (pc \in {"failed", "display"} /\
        \E i \in 1..Len(results) : InvalidRecord(results[i].value))
          => (~ validated /\ files = {})
    /\ files # {} => validated

C8_Witness ==
    /\ pc = "failed"
    /\ \E i \in 1..Len(results) : "score" \notin DOMAIN results[i].value
    /\ \E i \in 1..Len(results) : ~ InvalidRecord(results[i].value)
    /\ files = {}

\* C9 (as claimed): a response whose answer is missing or the empty string
\* yields value NOT_FOUND with is_found false, and a non-empty answer that
\* contains no not-found phrase yields that answer (after whitespace and
\* quote cleanup).
Unquoted(s) ==
    IF Len(s) >= 1 /\ s[1] = s[Len(s)] /\ s[1] \in {"\"", "'"}
    THEN SubSeq(s, 2, Len(s) - 1) ELSE s

HasNotFoundPhrase(s) ==
    \E ph \in not_found_indicators : Contains(ph, Strip(Lower(Unquoted(s))))

C9_NotFoundIffNothingExtracted ==
    (pc = "processed" /\ arg.kind = "json") =>
       /\ arg.answer \in {Missing, <<>>} =>
             (ret.extracted_value = NOT_FOUND /\ ~ ret.is_found)
       /\ (arg.answer \notin {Missing, Null, JNumber, <<>>}
           /\ ~ HasNotFoundPhrase(arg.answer)) =>
             ret.extracted_value = Strip(JoinSpace(Split(Unquoted(arg.answer))))

\* the keyword score of page type t on a page, computed from the table
ScoreOfType(t, page) ==
    TypeScore(DictGet(kwcfg.page_type_keywords, t, <<>>),
              Lower(page.cleaned_content))

\* the best-scoring type, ties going to the type listed first in `order`
BestType(order, page) ==
    LET best == CHOOSE i \in 1..Len(order) :
                  /\ \A j \in 1..Len(order) :
                       ScoreOfType(order[j], page) <= ScoreOfType(order[i], page)
                  /\ \A j \in 1..(i - 1) :
                       ScoreOfType(order[j], page) < ScoreOfType(order[i], page)
    IN IF ScoreOfType(order[best], page) > 0 THEN order[best] ELSE "other"

TableOrder == [i \in 1..Len(kwcfg.page_type_keywords) |->
                 kwcfg.page_type_keywords[i].key]

IsTypeOfEnum(t) == \E i \in 1..Len(PageType) : PageType[i] = t

\* C10 as stated: after tag_pages every page has one type of the enum, the
\* type of maximum keyword score with ties broken by enumeration order, OTHER
\* when all scores are zero, and OTHER for a page without text.
C10_MaxScoreEnumOrder ==
    pc = "tagged" =>
      \A i \in 1..Len(pages) :
         /\ IsTypeOfEnum(pages[i].page_type)
         /\ pages[i].page_type = BestType(PageType, pages[i])
         /\ pages[i].cleaned_content = <<>> => pages[i].page_type = "other"

\* C10 amended: a page among the first five whose text contains 'contents'
\* is TABLE_OF_CONTENTS; any other page has the type of maximum keyword
\* score, ties broken by the order of the keyword table, OTHER when all
\* scores are zero; a page without text is OTHER.
C10_MaxScoreTableOrder ==
    pc = "tagged" =>
      \A i \in 1..Len(pages) :
         /\ IsTypeOfEnum(pages[i].page_type)
         /\ pages[i].page_type =
              IF i <= 5 /\ Contains(Txt.contents, Lower(pages[i].cleaned_content))
              THEN "table_of_contents"
              ELSE BestType(TableOrder, pages[i])
         /\ pages[i].cleaned_content = <<>> => pages[i].page_type = "other"

\* a tagged document with a tie that the table order decides against the
\* enumeration order, a 'contents' page among the first five that scores
\* highest for another type, a 'contents' page after the fifth, and a page
\* without text
C10_Witness ==
    /\ pc = "tagged"
    /\ \E i \in 1..Len(pages) :
         /\ BestType(TableOrder, pages[i]) # BestType(PageType, pages[i])
         /\ pages[i].page_type = BestType(TableOrder, pages[i])
    /\ \E i \in 1..Len(pages) :
         /\ i <= 5
         /\ pages[i].page_type = "table_of_contents"
         /\ BestType(TableOrder, pages[i]) = "legal_terms"
    /\ \E i \in 1..Len(pages) :
         /\ i > 5
         /\ Contains(Txt.contents, pages[i].cleaned_content)
         /\ pages[i].page_type = "legal_terms"
    /\ \E i \in 1..Len(pages) :
         pages[i].cleaned_content = <<>> /\ pages[i].page_type = "other"

StrictlyAscending(numbers) ==
    \A i \in 1..(Len(numbers) - 1) : numbers[i] < numbers[i + 1]

\* C5: the pages of every ParameterMatch are in strictly ascending order of
\* page_number (so no page occurs twice), whichever tier selected them.
C5_PagesAscending ==
    \A i \in 1..Len(matches) :
       /\ StrictlyAscending(matches[i].page_numbers)
       /\ matches[i].page_numbers =
            [k \in 1..Len(matches[i].pages) |-> matches[i].pages[k].page_number]

\* a match of several pages that the tiers selected out of page order
C5_Witness ==
    /\ pc = "matched"
    /\ Len(matches[1].pages) >= 2
    /\ ~ StrictlyAscending(
           [k \in 1..Len(CandidatePages(kwcfg, parameters[1], pages)) |->
              CandidatePages(kwcfg, parameters[1], pages)[k].page_number])

\* C6: the pages of every ParameterMatch are pages of the input and there
\* are at most max_pages_per_prompt of them.
C6_SubsetAndBounded ==
    \A i \in 1..Len(matches) :
       /\ \A k \in 1..Len(matches[i].pages) :
             \E j \in 1..Len(pages) : pages[j] = matches[i].pages[k]
       /\ Len(matches[i].pages) <= max_pages_per_prompt

\* the subset half of C6 alone
C6_SubsetOnly ==
    \A i \in 1..Len(matches) :
       \A k \in 1..Len(matches[i].pages) :
          \E j \in 1..Len(pages) : pages[j] = matches[i].pages[k]

\* C1: for the parameter 'idea_author' the match is always empty with
\* confidence 0.0 whatever the document holds, the prompt built for it is
\* null, and no external call or sleep is ever made for it.
C1_SentinelNeverCalled ==
    \A i \in 1..Len(parameters) :
       parameters[i] = "idea_author" =>
          /\ i <= Len(matches) =>
               /\ matches[i].parameter = "idea_author"
               /\ matches[i].pages = <<>>
               /\ matches[i].page_numbers = <<>>
               /\ matches[i].confidence = Zero
          /\ i <= Len(prompts) =>
               /\ prompts[i].parameter = "idea_author"
               /\ prompts[i].prompt = Null
               /\ apilog[i] = <<>>
          /\ ~ (pc \in {"call", "sleep"} /\ cur = i)

\* a finished run on a document with a page about the author, in which
\* 'idea_author' was listed before a parameter that the model was called for
C1_Witness ==
    /\ pc = "done"
    /\ \E j \in 1..Len(pages) :
          Contains(Txt.author, pages[j].cleaned_content)
    /\ Len(parameters) = 2
    /\ parameters[1] = "idea_author"
    /\ Len(responses) = 2
    /\ responses[1].extracted_value = NOT_FOUND
    /\ apilog[1] = <<>>
    /\ apilog[2] # <<>>

\* C11: a page without words (word_count 0) is tagged with no relevant
\* parameter and is in the pages of no ParameterMatch, whichever tier,
\* the last-resort first three pages included, selected them.
C11_EmptyPageContributesNothing ==
    \A j \in 1..Len(pages) :
       pages[j].word_count = 0 =>
          /\ pc = "matched" => pages[j].relevant_parameters = <<>>
          /\ \A i \in 1..Len(matches) :
                \A k \in 1..Len(matches[i].pages) :
                   matches[i].pages[k].page_number # pages[j].page_number

\* the page numbers of a page list, as a set
NumbersOf(ps) == {ps[k].page_number : k \in 1..Len(ps)}

\* what each tier returns for the parameter of the run
KeywordTier == _find_pages_by_content_analysis(kwcfg, parameters[1], pages)
TagTier == TaggedCandidates(get_pages_with_parameter(pages, parameters[1]))
FallbackTier == _use_fallback_strategy(kwcfg, parameters[1], pages)

\* C12: for a parameter other than 'idea_author' the match holds exactly
\* the pages of the keyword search when that returned any; otherwise exactly
\* the pages the tagger marked when there are any; otherwise exactly the
\* pages of the fallback strategy.
C12_TiersInOrder ==
    (pc = "matched" /\ parameters[1] # "idea_author") =>
       /\ Len(matches[1].pages) = Cardinality(NumbersOf(matches[1].pages))
       /\ NumbersOf(matches[1].pages) =
            IF KeywordTier # <<>> THEN NumbersOf(KeywordTier)
            ELSE IF TagTier # <<>> THEN NumbersOf(TagTier)
            ELSE NumbersOf(FallbackTier)

\* a match decided by the tagger's pages: the keyword search found nothing
\* and the fallback strategy would have returned other pages
C12_Witness ==
    /\ pc = "matched"
    /\ parameters[1] # "idea_author"
    /\ KeywordTier = <<>>
    /\ TagTier # <<>>
    /\ NumbersOf(FallbackTier) # NumbersOf(TagTier)
    /\ NumbersOf(matches[1].pages) = NumbersOf(TagTier)

\* the classifier's confidences for the parameter of the run on the pages
\* of ps that carry one
CarriedConfidences(ps) ==
    LET Carries(page) == DictHas(page.parameter_confidence, parameters[1])
        carrying == SelectSeq(ps, Carries)
    IN [i \in 1..Len(carrying) |->
          DictGet(carrying[i].parameter_confidence, parameters[1], Zero)]

RECURSIVE ProductOfDenominators(_)
ProductOfDenominators(rs) ==
    IF rs = <<>> THEN 1 ELSE Head(rs)[2] * ProductOfDenominators(Tail(rs))

\* C13: on a non-empty page list the confidence is the unweighted mean of
\* min(pages/3, 1), min(average word count/500, 1) and, only when a page of
\* the list carries a classifier confidence for the parameter, the mean of
\* those confidences; it lies in [0,1]; it is 0.0 on the empty list.
\* The factors are a/3, b/(500n) and c/(P*k), compared by cross
\* multiplication.
C13_ConfidenceIsMean ==
    pc = "confident" =>
       LET n == Len(arg)
           a == IF n < 3 THEN n ELSE 3
           words == SumSeq([i \in 1..n |-> arg[i].word_count])
           b == IF words < 500 * n THEN words ELSE 500 * n
           cs == CarriedConfidences(arg)
           k == Len(cs)
           P == ProductOfDenominators(cs)
           c == SumSeq([i \in 1..k |-> cs[i][1] * (P \div cs[i][2])])
       IN /\ 0 <= ret[1] /\ ret[1] <= ret[2]
          /\ n = 0 => ret = Zero
          /\ (n > 0 /\ k = 0) =>
                ret[1] * (2 * 3 * 500 * n) = ret[2] * (a * 500 * n + b * 3)
          /\ (n > 0 /\ k > 0) =>
                ret[1] * (3 * 3 * 500 * n * P * k)
                  = ret[2] * (a * 500 * n * P * k + b * 3 * P * k
                              + c * 3 * 500 * n)

\* a selection of two pages of which one carries a confidence of one half
\* and the other none, and whose content score is below the cap
C13_Witness ==
    /\ pc = "confident"
    /\ Len(arg) = 2
    /\ CarriedConfidences(arg) = <<Rat(1, 2)>>
    /\ SumSeq([i \in 1..Len(arg) |-> arg[i].word_count]) < 1000
    /\ ret # Zero

\* the stage of main() a position belongs to: configuration, parse,
\* classify, match, build prompts, extract, format, display, end
Stage(p) ==
    CASE p = "config" -> 0
      [] p = "load" -> 1
      [] p \in {"tagger", "tag"} -> 2
      [] p = "match" -> 3
      [] p = "build" -> 4
      [] p \in {"connect", "test_call", "test_sleep", "batch", "call",
                "sleep"} -> 5
      [] p = "returned" -> 6
      [] p = "display" -> 7
      [] OTHER -> 8

\* what a stage produces exists only once every earlier stage has finished
\* for the whole document and the whole parameter list
StagesFinished ==
    /\ Stage(pc) <= 1 => pages = <<>> /\ parameters = <<>>
    /\ (\E j \in 1..Len(pages) : pages[j].page_type # "") =>
          /\ Stage(pc) > 2
          /\ \A j \in 1..Len(pages) : pages[j].page_type # ""
    /\ matches # <<>> =>
          /\ Stage(pc) > 3
          /\ Len(matches) = Len(parameters)
          /\ \A j \in 1..Len(pages) : pages[j].page_type # ""
    /\ prompts # <<>> =>
          /\ Stage(pc) > 4
          /\ Len(prompts) = Len(parameters)
    /\ (\E i \in DOMAIN apilog : apilog[i] # <<>>) =>
          /\ Stage(pc) >= 5
          /\ Len(prompts) = Len(parameters)
    /\ (results # <<>> \/ files # {} \/ Stage(pc) \in {6, 7}) =>
          Len(responses) = Len(parameters)
    /\ results # <<>> => Stage(pc) > 6

\* the parameters are extracted in list order: calls are made for parameter
\* i only after the connection test succeeded and every earlier parameter
\* has its response, and response i is the one of parameter i
ExtractionInOrder ==
    /\ Len(responses) <= Len(parameters)
    /\ \A i \in 1..Len(responses) : responses[i].parameter = parameters[i]
    /\ \A i \in 1..Len(prompts) :
          apilog[i] # <<>> =>
             /\ i <= Len(responses) + 1
             /\ \E p \in CallsOf(apilog[0]) : apilog[0][p].ok

\* C14 as stated: the stages run in order and exactly one external call is
\* made for every parameter, the responses being in parameter-list order.
C14_OneCallPerParameter ==
    /\ StagesFinished
    /\ ExtractionInOrder
    /\ Stage(pc) \in {6, 7} =>
          \A i \in 1..Len(parameters) : Cardinality(CallsOf(apilog[i])) = 1

\* C14 amended: the stages parse, classify, match, build prompts, extract,
\* format run in this order, each after the previous one has finished; the
\* extraction first tests the connection and then takes the parameters in
\* list order, making no external call for a parameter without prompt and
\* between one and retry_attempts calls for any other, of which only the
\* last can succeed; the responses are in parameter-list order.
C14_StagesAndCallsInOrder ==
    /\ [](/\ StagesFinished
          /\ ExtractionInOrder
          /\ \A i \in 1..Len(responses) :
                IF prompts[i].prompt = Null
                THEN apilog[i] = <<>>
                ELSE /\ Cardinality(CallsOf(apilog[i])) \in 1..retry_attempts
                     /\ \A p \in CallsOf(apilog[i]) :
                           apilog[i][p].ok => p = Len(apilog[i]))
    /\ [][/\ \/ Stage(pc') \in {Stage(pc), Stage(pc) + 1}
             \/ pc' = "failed"
          /\ \A i \in DOMAIN apilog \cap DOMAIN apilog' :
                apilog'[i] # apilog[i] =>
                   i = IF pc \in {"test_call", "test_sleep"} THEN 0 ELSE cur]_vars

\* a finished run in which the first parameter took two calls and the
\* second, listed after it, none
C14_Witness ==
    /\ pc = "done"
    /\ Len(parameters) = 2
    /\ parameters[1] # parameters[2]
    /\ Cardinality(CallsOf(apilog[1])) = 2
    /\ apilog[2] = <<>>
    /\ responses[1].parameter = parameters[1]
    /\ responses[2].parameter = parameters[2]
    /\ files = {"json", "summary", "csv"}

\* C15: with a configuration file that is missing, is not JSON, lacks one
\* of the five required keys or names a PDF or parameters file that does not
\* exist, ConfigManager() raises InvalidConfigurationError, and main() ends
\* with it before a page is parsed, a parameter read or an external call made.
C15_InvalidConfigurationAborts ==
    (\/ config.file \in {"missing", "bad_json"}
     \/ \E key \in required_keys : key \notin config.keys
     \/ "pdf_input_path" \notin config.existing
     \/ "parameters_json_path" \notin config.existing) =>
       /\ _load_configuration(config) = "InvalidConfigurationError"
       /\ pc \in {"config", "failed"}
       /\ pages = <<>>
       /\ parameters = <<>>
       /\ apilog = <<>>
       /\ responses = <<>>
       /\ files = {}

\* main() has ended on a configuration with all five keys whose parameters
\* file does not exist
C15_Witness ==
    /\ pc = "failed"
    /\ config.file = "json"
    /\ config.keys = required_keys
    /\ config.existing = {"pdf_input_path"}
    /\ pages = <<>>

\* C16: main() returns 0 (position "done") exactly when every stage through
\* the display of the results completed, returns 1 (position "failed")
\* otherwise, and a run that wrote its three output files returns 0.
C16_ExitCodeFollowsStages ==
    /\ pc = "done" =>
          /\ validated
          /\ files = {"json", "summary", "csv"}
          /\ Len(responses) = Len(parameters)
    /\ (pc \in {"done", "failed"} /\ files = {"json", "summary", "csv"}) =>
          pc = "done"

\* C17: no prompt handed to the extraction stage is longer than the ceiling
\* of max_tokens_per_page * max_pages_per_prompt tokens at 4 characters per
\* token.  (The prompt of the model leaves out the fixed wording of the
\* template and the plain words of the pages, so the prompt of the program
\* is at least as long.)
C17_PromptsWithinCeiling ==
    \A i \in 1..Len(prompts) :
       prompts[i].prompt # Null =>
          Len(prompts[i].prompt)
             <= config.max_tokens_per_page * max_pages_per_prompt * 4

\* C18: with a keyword configuration file that is missing or malformed the
\* construction of PageTagger completes, so that main() goes on to tag the
\* loaded pages with the fallback keywords.
C18_FallbackKeywordsUsable ==
    kwcfg \in {Missing, Null} =>
       /\ PageTagger_init(kwcfg) = "ok"
       /\ ~ (pc = "failed" /\ pages # <<>>)

\* the source lists exactly the cited pages, in ascending order, each under
\* the page label
ListsPagesAscending(source, page_numbers) ==
    /\ Len(source) = Len(page_numbers)
    /\ \A k \in 1..Len(source) : source[k].label = "amud"
    /\ \A k \in 1..(Len(source) - 1) : source[k].page <= source[k + 1].page
    /\ \A n \in {page_numbers[k] : k \in 1..Len(page_numbers)} :
          Cardinality({k \in 1..Len(source) : source[k].page = n})
             = Cardinality({k \in 1..Len(page_numbers) : page_numbers[k] = n})

\* the record data is the one the extraction result r determines
RecordOf(data, r) ==
    /\ DOMAIN data = required_fields
    /\ IF r.extracted_value = NOT_FOUND \/ r.page_numbers = <<>>
       THEN data.source = SourceNotFound
       ELSE ListsPagesAscending(data.source, r.page_numbers)
    /\ IF r.extracted_value = NOT_FOUND
       THEN data.answer = <<>> /\ data.details = <<>>
       ELSE data.answer = r.extracted_value /\ data.details = r.details
    /\ data.score.t = "int"
    /\ ScoreByThresholds(r.confidence[1], r.confidence[2], data.score.v)

\* C19: every OutputRecord is determined by its extraction result (the last
\* one of its parameter): the source is the not-found phrase when the value is
\* NOT_FOUND or no page is cited and otherwise lists the cited pages in
\* ascending order under the page label; answer and details are empty when
\* the value is NOT_FOUND; the score is the bucket of the confidence.
C19_RecordFromExtractionResult ==
    /\ \A i \in 1..Len(results) :
          \E j \in 1..Len(responses) :
             /\ responses[j].parameter = results[i].key
             /\ \A l \in (j + 1)..Len(responses) :
                   responses[l].parameter # results[i].key
             /\ RecordOf(results[i].value, responses[j])
    /\ pc \in {"display", "done"} =>
          \A j \in 1..Len(responses) :
             \E i \in 1..Len(results) : results[i].key = responses[j].parameter

C19_Witness ==
    /\ pc = "display"
    /\ Len(responses) = 2
    /\ responses[1].page_numbers = <<3, 1, 2>>
    /\ responses[1].is_found
    /\ responses[2].page_numbers = <<2, 1>>
    /\ ~ responses[2].is_found
    /\ Len(results) = 2
    /\ results[1].value.source
          = <<[label |-> "amud", page |-> 1], [label |-> "amud", page |-> 2],
              [label |-> "amud", page |-> 3]>>
    /\ results[1].value.score = IntVal(5)
    /\ results[2].value.source = SourceNotFound
    /\ results[2].value.answer = <<>>

\* twice the highest keyword score among the pages ps
RECURSIVE TopScore2(_, _)
TopScore2(ps, keywords) ==
    IF ps = <<>> THEN 0
    ELSE LET rest == TopScore2(Tail(ps), keywords)
             first == Score2(Head(ps), keywords)
         IN IF first >= rest THEN first ELSE rest

\* C20: _search_pages_by_keywords returns only searched pages whose keyword
\* score is at least max(1.0, 0.3 x top_score), top_score being the highest
\* score among the searched pages, and never a page without a keyword hit;
\* the client_name match consists of the pages it returns, so that in a
\* 2-page document where only page 1 holds a client_name keyword the match
\* is exactly page 1.
C20_OnlyPagesAboveThreshold ==
    pc = "matched" =>
       LET keywords == DictGet(kwcfg.parameter_keywords, parameters[1], <<>>)
           found == _search_pages_by_keywords(pages, keywords,
                                              max_pages_per_prompt)
           top_score2 == TopScore2(pages, keywords)
       IN /\ \A k \in 1..Len(found) :
                /\ \E n \in 1..Len(pages) : pages[n] = found[k]
                /\ Score2(found[k], keywords) > 0
                /\ Score2(found[k], keywords) >= 2
                /\ 10 * Score2(found[k], keywords) >= 3 * top_score2
          /\ (parameters[1] = "client_name" /\ found # <<>>) =>
                NumbersOf(matches[1].pages) = NumbersOf(found)
          /\ (/\ parameters[1] = "client_name"
              /\ Len(pages) = 2
              /\ Score2(pages[1], keywords) > 0
              /\ Score2(pages[2], keywords) = 0) =>
                matches[1].pages = <<pages[1]>>

\* a page with a client_name keyword in a range of ten of its own is left out
\* because its score is below three tenths of the top score
C20_Witness ==
    /\ pc = "matched"
    /\ parameters = <<"client_name">>
    /\ Len(matches[1].pages) < max_pages_per_prompt
    /\ \E n \in 1..Len(pages) :
          LET keywords == DictGet(kwcfg.parameter_keywords, "client_name", <<>>)
          IN /\ Score2(pages[n], keywords) >= 2
             /\ 10 * Score2(pages[n], keywords)
                   < 3 * TopScore2(pages, keywords)
             /\ \A k \in 1..Len(matches[1].pages) :
                   /\ matches[1].pages[k].page_number # pages[n].page_number
                   /\ matches[1].pages[k].page_number \div 10
                         # pages[n].page_number \div 10

\* the positions of the pages of ps that qualify in a search on keywords:
\* pages with words whose score reaches max(1.0, 0.3 x top score)
QualifyingPages(ps, keywords) ==
    {n \in 1..Len(ps) :
        /\ ps[n].word_count # 0
        /\ Score2(ps[n], keywords) >= 2
        /\ 10 * Score2(ps[n], keywords) >= 3 * TopScore2(ps, keywords)}

\* C21: _search_pages_by_keywords prefers pages of tens-buckets not yet
\* represented, and its result has max_pages pages whenever at least
\* max_pages pages qualify (and all qualifying pages when fewer do).
C21_FillsUpToMaxPages ==
    (pc = "matched" /\ parameters[1] = "client_name") =>
       LET keywords == DictGet(kwcfg.parameter_keywords, "client_name", <<>>)
           qualifying == Cardinality(QualifyingPages(pages, keywords))
       IN Len(_search_pages_by_keywords(pages, keywords, max_pages_per_prompt))
             = IF qualifying >= max_pages_per_prompt
               THEN max_pages_per_prompt ELSE qualifying

\* C22: on the tag tier, with more than 6 pages tagged as relevant to the
\* parameter the match keeps exactly 4 of them, none with a lower word count
\* than a tagged page left out; with 6 or fewer tagged pages it keeps all.
\* (The tier is reached when the keyword search of a parameter other than
\* 'idea_author' finds nothing.)
C22_TagTierKeepsFourRichest ==
    (pc = "matched" /\ parameters[1] # "idea_author" /\ KeywordTier = <<>>
        /\ get_pages_with_parameter(pages, parameters[1]) # <<>>) =>
       LET tagged == get_pages_with_parameter(pages, parameters[1])
           kept == matches[1].pages
           Kept(page) == \E k \in 1..Len(kept) : kept[k] = page
       IN /\ \A k \in 1..Len(kept) :
                \E n \in 1..Len(tagged) : tagged[n] = kept[k]
          /\ StrictlyAscending(matches[1].page_numbers)
          /\ IF Len(tagged) > 6
             THEN /\ Len(kept) = 4
                  /\ \A n \in 1..Len(tagged) :
                        ~ Kept(tagged[n]) =>
                           \A k \in 1..Len(kept) :
                              kept[k].word_count >= tagged[n].word_count
             ELSE kept = tagged

\* seven tagged pages, the longer ones not among the first four
C22_Witness ==
    /\ pc = "matched"
    /\ KeywordTier = <<>>
    /\ Len(get_pages_with_parameter(pages, parameters[1])) = 7
    /\ Len(matches[1].pages) = 4
    /\ matches[1].page_numbers[1] > 1
    /\ \E n \in 1..Len(pages) :
          /\ pages[n].page_number < matches[1].page_numbers[4]
          /\ \E t \in 1..Len(pages[n].relevant_parameters) :
                pages[n].relevant_parameters[t] = parameters[1]
          /\ \A k \in 1..4 : matches[1].pages[k] # pages[n]

\* fb holds min(3, |among|) pages, all at positions `among` of the document,
\* from as many ranges of twenty page numbers as three pages can cover
DiverseOutOf(fb, among) ==
    LET Buckets(numbers) == {n \div 20 : n \in numbers}
        Least(a, b) == IF a <= b THEN a ELSE b
    IN /\ Len(fb) = Least(3, Cardinality(among))
       /\ \A k \in 1..Len(fb) : \E n \in among : pages[n] = fb[k]
       /\ \A k, l \in 1..Len(fb) : fb[k] = fb[l] => k = l
       /\ Cardinality(Buckets(NumbersOf(fb)))
            = Least(3, Cardinality(Buckets({pages[n].page_number : n \in among})))

\* C23: the generic fallback returns at most 3 pages by the first applicable
\* rule: the pages found by a search on the parameter name (verbatim or with
\* spaces for underscores); else up to 3 diverse pages out of those with 100
\* to 800 words; else, when there is no such page, out of those with more
\* than 50 words; else, when there is none either, the first 3 pages.  When
\* neither keywords nor tags select a page the match is the fallback's pages.
C23_FallbackRulesInOrder ==
    pc = "matched" =>
       LET name_hits == _search_pages_by_keywords(
                           pages,
                           <<Chars(parameters[1]),
                             ReplaceUnderscore(Chars(parameters[1]))>>, 3)
           moderate == {n \in 1..Len(pages) :
                           100 <= pages[n].word_count
                              /\ pages[n].word_count <= 800}
           reasonable == {n \in 1..Len(pages) : pages[n].word_count > 50}
       IN /\ Len(FallbackTier) <= 3
          /\ IF name_hits # <<>> THEN FallbackTier = name_hits
             ELSE IF moderate # {} THEN DiverseOutOf(FallbackTier, moderate)
             ELSE IF reasonable # {} THEN DiverseOutOf(FallbackTier, reasonable)
             ELSE FallbackTier = Prefix(pages, 3)
          /\ (parameters[1] # "idea_author" /\ KeywordTier = <<>>
                 /\ TagTier = <<>>) =>
                NumbersOf(matches[1].pages) = NumbersOf(FallbackTier)

\* no page has 100 to 800 words, so the match is made of the pages of more
\* than 50 words, and a shorter page with text is left out
C23_Witness ==
    /\ pc = "matched"
    /\ parameters = <<"start_date">>
    /\ KeywordTier = <<>>
    /\ \A n \in 1..Len(pages) :
          ~ (100 <= pages[n].word_count /\ pages[n].word_count <= 800)
    /\ Len(matches[1].pages) >= 2
    /\ \A k \in 1..Len(matches[1].pages) : matches[1].pages[k].word_count > 800
    /\ \E n \in 1..Len(pages) :
          pages[n].word_count > 0 /\ pages[n].word_count <= 50

\* C24: whichever parse produced the value (the JSON parse first, the text
\* patterns when it fails), a value that contains a recognized not-found
\* phrase becomes NOT_FOUND and a value that contains none is returned as it
\* is apart from whitespace and quote cleanup; in particular a JSON answer
\* that is a number, which contains no such phrase, is not turned into
\* NOT_FOUND.
C24_OnlyNotFoundPhrasesFold ==
    (pc = "processed" /\ arg.kind \in {"json", "text"}) =>
       LET value == IF arg.kind = "text" THEN Strip(arg.answer) ELSE arg.answer
       IN IF arg.answer = JNumber
          THEN arg.kind = "json" => ret.extracted_value # NOT_FOUND
          ELSE IF arg.answer \in {Missing, Null} \/ value = <<>> THEN TRUE
          ELSE IF HasNotFoundPhrase(value)
               THEN ret.extracted_value = NOT_FOUND
               ELSE ret.extracted_value
                       = Strip(JoinSpace(Split(Unquoted(value))))

\* C25 as stated: every confidence extract_parameter attaches to a response
\* is at most 0.8.
C25_ConfidenceAtMostFourFifths ==
    pc = "processed" => ret.confidence[1] * 10 <= 8 * ret.confidence[2]

\* C25, amended: every confidence extract_parameter attaches to a response is
\* below 0.9 (the factors are at most 0.8 and their mean exceeds 0.8 by no
\* more than the rounding of the division), so the score of the record made
\* from it lies in 0..4 and score 5 is unreachable.
C25_ScoreFiveUnreachable ==
    pc = "processed" =>
       /\ ret.confidence[1] * 10 < 9 * ret.confidence[2]
       /\ ret.confidence[1] * 1000 <= 801 * ret.confidence[2]
       /\ _convert_confidence_to_score(ret.confidence) \in 0..4

\* three factors of 0.8: an answer of two words without digit or capital,
\* details of six words, no word of uncertainty
C25_Witness ==
    /\ pc = "processed"
    /\ arg.kind = "json"
    /\ Len(Split(ret.extracted_value)) = 2
    /\ Len(Split(ret.details)) = 6
    /\ ret.confidence[1] * 10 > 8 * ret.confidence[2]
    /\ _convert_confidence_to_score(ret.confidence) = 4

\* C26: in a run of the pipeline every NOT_FOUND response (failed call, null
\* prompt, not-found answer) has confidence 0.0 and every response with
\* another value has confidence at least 0.3, so that the score of a record
\* is 0 if and only if the value of its extraction response is NOT_FOUND.
C26_ScoreZeroIffNotFound ==
    /\ \A j \in 1..Len(responses) :
          IF responses[j].extracted_value = NOT_FOUND
          THEN responses[j].confidence = Zero
          ELSE responses[j].confidence[1] * 10 >= 3 * responses[j].confidence[2]
    /\ \A i \in 1..Len(results) :
          \E j \in 1..Len(responses) :
             /\ responses[j].parameter = results[i].key
             /\ \A l \in (j + 1)..Len(responses) :
                   responses[l].parameter # results[i].key
             /\ results[i].value.score.v = 0
                   <=> responses[j].extracted_value = NOT_FOUND
             /\ results[i].value.score.v \in 0..4

\* a run whose records hold a found value of the lowest confidence, a
\* not-found answer after a call, and a value not found without any call
C26_Witness ==
    /\ pc = "done"
    /\ Len(results) = 2
    /\ \E j \in 1..Len(responses) :
          /\ responses[j].extracted_value = <<>>
          /\ responses[j].confidence = Rat(11, 30)
          /\ \E i \in 1..Len(results) :
                /\ results[i].key = responses[j].parameter
                /\ results[i].value.score = IntVal(1)
    /\ \E j \in 1..Len(responses) :
          /\ responses[j].extracted_value = NOT_FOUND
          /\ apilog[j] # <<>>
          /\ \E i \in 1..Len(results) :
                /\ results[i].key = responses[j].parameter
                /\ results[i].value.score = IntVal(0)

\* C27: every parameter other than 'idea_author' is matched to at least one
\* page of the (never empty) parsed document, the last resort being its
\* first pages; so in a run only the sentinel parameter has a null prompt and
\* every other parameter that has its response had at least one external
\* call.
C27_OnlySentinelWithoutPrompt ==
    /\ \A i \in 1..Len(matches) :
          /\ pages # <<>>
          /\ matches[i].pages = <<>> <=> matches[i].parameter = "idea_author"
          /\ matches[i].parameter = parameters[i]
    /\ \A i \in 1..Len(prompts) :
          prompts[i].prompt = Null <=> parameters[i] = "idea_author"
    /\ \A i \in 1..Len(responses) :
          CallsOf(apilog[i]) = {} <=> parameters[i] = "idea_author"

\* a finished run on a document without any text: the parameter other than
\* the sentinel is matched to its first pages and is called for
C27_Witness ==
    /\ pc = "done"
    /\ \A n \in 1..Len(pages) : pages[n].word_count = 0
    /\ Len(pages) = 2
    /\ parameters = <<"start_date", "idea_author">>
    /\ matches[1].page_numbers = <<1, 2>>
    /\ CallsOf(apilog[1]) # {}
    /\ prompts[2].prompt = Null
    /\ apilog[2] = <<>>

\* the positions in `found` of the pages that share their tens-bucket with a
\* page selected before them
SharingBucket(found) ==
    {k \in 1..Len(found) :
        \E l \in 1..(k - 1) :
           found[l].page_number \div 10 = found[k].page_number \div 10}

\* C28: in the result of _search_pages_by_keywords at most
\* max(0, max_pages // 2 - 1) pages share a tens-bucket with a page selected
\* before them (qualifying pages skipped for bucket reuse are not added
\* back); so with max_pages <= 3 the selected pages lie in pairwise distinct
\* buckets and a document of fewer than 10 pages yields at most one page.
C28_BucketReuseBounded ==
    pc = "matched" =>
       \A max_pages \in 1..6 :
          LET found == _search_pages_by_keywords(
                          pages,
                          DictGet(kwcfg.parameter_keywords, parameters[1], <<>>),
                          max_pages)
              reuse == max_pages \div 2 - 1
          IN /\ Len(found) <= max_pages
             /\ Cardinality(SharingBucket(found))
                   <= IF reuse > 0 THEN reuse ELSE 0
             /\ max_pages <= 3 =>
                   /\ SharingBucket(found) = {}
                   /\ Len(pages) < 10 => Len(found) <= 1

\* threshold_conditions, searched with max_pages = 4: two pages of the first
\* ten are matched and a third qualifying page of the first ten is left out
C28_Witness ==
    /\ pc = "matched"
    /\ parameters = <<"threshold_conditions">>
    /\ Len(matches[1].pages) \in 2..3
    /\ matches[1].page_numbers[1] < 10
    /\ matches[1].page_numbers[2] < 10
    /\ \E n \in QualifyingPages(pages, <<Txt.minimum>>) :
          /\ pages[n].page_number < 10
          /\ \A k \in 1..Len(matches[1].pages) : matches[1].pages[k] # pages[n]

\* C29: the OutputRecord of a parameter depends only on that parameter's
\* extraction response: whatever confidence the matcher computed, the prompt
\* dict hands the same parameter, prompt text and page numbers to the
\* extraction, the confidence of the response is the one computed from its
\* own value and details, and the record is the one of the response; so the
\* match confidence influences neither answer, details, source nor score.
C29_MatchConfidenceNotUsed ==
    /\ \A i \in 1..Len(responses) :
          /\ responses[i].confidence
                = _calculate_confidence(responses[i].extracted_value,
                                        responses[i].details)
          /\ responses[i].parameter = matches[i].parameter
          /\ responses[i].page_numbers \in {<<>>, matches[i].page_numbers}
          /\ \A c \in {Zero, Rat(1, 2), Rat(1, 1)} :
                LET varied == build_batch_prompts(
                                 <<[matches[i] EXCEPT !.confidence = c]>>)[1]
                IN /\ varied.parameter = prompts[i].parameter
                   /\ varied.prompt = prompts[i].prompt
                   /\ varied.page_numbers = prompts[i].page_numbers
    /\ \A i \in 1..Len(results) :
          \E j \in 1..Len(responses) :
             /\ responses[j].parameter = results[i].key
             /\ RecordOf(results[i].value, responses[j])

\* a finished run in which the matcher's confidence and the confidence of the
\* extraction fall into different scores, and the record carries the latter
C29_Witness ==
    /\ pc = "done"
    /\ Len(responses) = 1
    /\ responses[1].is_found
    /\ matches[1].pages # <<>>
    /\ _convert_confidence_to_score(matches[1].confidence)
          < _convert_confidence_to_score(responses[1].confidence)
    /\ Len(results) = 1
    /\ results[1].value.answer = responses[1].extracted_value
    /\ results[1].value.score
          = IntVal(_convert_confidence_to_score(responses[1].confidence))

\* matches, prompts and responses follow the parameter list: each has one
\* entry per listed parameter once its stage has finished, in list order
StagesKeepParameters ==
    /\ matches # <<>> => Len(matches) = Len(parameters)
    /\ prompts # <<>> => Len(prompts) = Len(parameters)
    /\ Stage(pc) > 5 /\ pc # "failed" => Len(responses) = Len(parameters)
    /\ Len(responses) <= Len(parameters)
    /\ \A i \in 1..Len(matches) : matches[i].parameter = parameters[i]
    /\ \A i \in 1..Len(prompts) : prompts[i].parameter = parameters[i]
    /\ \A i \in 1..Len(responses) : responses[i].parameter = parameters[i]

\* C30 as stated: the stages keep number and order of the parameters, and
\* the formatted output has one record for every entry of the parameter
\* list, also when a name is listed more than once.
C30_OneRecordPerListedParameter ==
    /\ StagesKeepParameters
    /\ pc \in {"display", "done"} =>
          /\ Len(results) = Len(parameters)
          /\ \A i \in 1..Len(parameters) : results[i].key = parameters[i]

\* C30 amended: the stages keep number and order of the parameters, and the
\* formatted output has exactly one record for every distinct requested
\* name, also for a parameter whose extraction failed, in the order of the
\* first listing of the names; a name listed more than once has the record
\* of its last response.
C30_OneRecordPerName ==
    /\ StagesKeepParameters
    /\ pc \in {"display", "done"} =>
          /\ \A i \in 1..Len(parameters) :
                \E k \in 1..Len(results) :
                   /\ results[k].key = parameters[i]
                   /\ \A l \in 1..Len(results) :
                         results[l].key = parameters[i] => l = k
                   /\ (\A j \in (i + 1)..Len(parameters) :
                          parameters[j] # parameters[i])
                         => RecordOf(results[k].value, responses[i])
          /\ \A k \in 1..Len(results) :
                \E i \in 1..Len(parameters) :
                   /\ results[k].key = parameters[i]
                   /\ \A l \in 1..(k - 1) :
                         \E j \in 1..(i - 1) : results[l].key = parameters[j]

\* a finished run on a list naming client_name twice: the first response is
\* found, the second is not, and the single record is the one of the second
C30_Witness ==
    /\ pc = "done"
    /\ parameters = <<"client_name", "client_name">>
    /\ Len(matches) = 2
    /\ Len(prompts) = 2
    /\ Len(responses) = 2
    /\ responses[1].is_found
    /\ ~ responses[2].is_found
    /\ Len(results) = 1
    /\ results[1].key = "client_name"
    /\ results[1].value.answer = <<>>
    /\ results[1].value.score = IntVal(0)

====
